---- MODULE Spec2Model ----
(***************************************************************************)
(* The Alibi WebSocket server (AlibiServer): room registry, connection     *)
(* registry, phase state machine with its timers, scoring and the          *)
(* per-recipient broadcast.  One action per message handler / callback.    *)
(*                                                                         *)
(* Player ids are the positive integers handed out by generateId, 0 is     *)
(* null.  Room codes are strings, "null" is no code.  `outbox` holds the   *)
(* messages the last handler sent, in sending order; `last` names the last *)
(* handler that ran, the connection it ran for and its input.              *)
(***************************************************************************)
EXTENDS Integers, Sequences, FiniteSets, TLC

VARIABLES rooms, clients, nextId, nextOid, timers, outbox, last

vars == <<rooms, clients, nextId, nextOid, timers, outbox, last>>

\* ---------------------------------------------------------------- bounds
\* connections ever opened, rounds a room may start, and the Math.random()
\* draws of startGame that are explored (indices into the crime catalog and
\* into the player list)
MaxConns == 4
FullConns == 9
LobbyConns == 2
\* the connections that vote and the largest wager they send
MaxVoters == 2
MaxConfidence == 2
MaxRooms == 2
\* connections ever opened when an abandoned room's code is drawn again
StaleConns == 5
\* the connections that ask questions
MaxAskers == 2
\* the connections that write alibis
MaxWriters == 2
MaxRounds == 2
CrimeDraws == 1
GuiltyDraws == 1

\* the code generateRoomCode draws when a single room is followed
Codes == {"AB12"}
\* the codes it draws when rooms are followed side by side
LobbyCodes == {"AB12", "CD34"}
Names == {"ann"}
\* the alibi texts a client sends
Alibis == {"at home", "at work"}
\* the wagers a client sends, inside and outside 1..3
Confidences == {-2, 0, 1, 2, 3, 4, 9}
\* the answer texts a client sends
Answers == {"", "at home"}

\* ------------------------------------------------------ program constants
MAX_PLAYERS == 8
MIN_PLAYERS == 4
PALETTE_SIZE == 8
CORRECT_POINTS == 100
MAX_QUESTIONS == 3
FOOLED_POINTS == 150

\* faulty durations with an interrogation shorter than the last reveal
PHASE_DURATIONS_m ==
  [SETUP |-> 5000, ALIBI_CONSTRUCTION |-> 30000, INTERROGATION |-> 15000,
   ACCUSATIONS |-> 20000, RESULTS |-> 10000]

PHASE_DURATIONS ==
  [SETUP |-> 5000, ALIBI_CONSTRUCTION |-> 30000, INTERROGATION |-> 30000,
   ACCUSATIONS |-> 20000, RESULTS |-> 10000]

phaseSequence ==
  <<"SETUP", "ALIBI_CONSTRUCTION", "INTERROGATION", "ACCUSATIONS", "RESULTS">>

\* Array.prototype.indexOf, 0-based, -1 when absent
IndexOf(seq, x) ==
  IF \E i \in 1..Len(seq) : seq[i] = x
  THEN (CHOOSE i \in 1..Len(seq) : seq[i] = x /\ \A j \in 1..(i-1) : seq[j] # x) - 1
  ELSE -1

NullCrime ==
  [id |-> "null", title |-> "null", description |-> "null",
   location |-> "undefined", time |-> "undefined", evidence |-> <<>>]

getCrimes ==
  << [id |-> "museum_heist", title |-> "Art Theft",
      description |-> "sculpture stolen", location |-> "Meridian Museum",
      time |-> "9:47 PM",
      evidence |-> << [id |-> "tattoo", revealTime |-> 10],
                      [id |-> "shoes", revealTime |-> 20] >>],
     [id |-> "corporate_espionage", title |-> "Data Breach",
      description |-> "files stolen", location |-> "TechCorp HQ",
      time |-> "11:23 PM",
      evidence |-> << [id |-> "coffee", revealTime |-> 10],
                      [id |-> "parking", revealTime |-> 20] >>],
     [id |-> "jewelry_theft", title |-> "Diamond Heist",
      description |-> "diamonds stolen", location |-> "Luxe Jewelers",
      time |-> "8:15 PM",
      evidence |-> << [id |-> "gloves", revealTime |-> 10],
                      [id |-> "witness", revealTime |-> 20] >>] >>

\* ------------------------------------------------------------ helpers
Range(seq) == {seq[i] : i \in 1..Len(seq)}

\* Map.keys() of room.players, in insertion order
PlayerIds(room) == [i \in 1..Len(room.players) |-> room.players[i].id]

\* Map.get on room.players: the position of the id, 0 when absent
PlayerPos(room, id) ==
  IF \E i \in 1..Len(room.players) : room.players[i].id = id
  THEN CHOOSE i \in 1..Len(room.players) : room.players[i].id = id
  ELSE 0

NoResults == [defined |-> FALSE, guiltyPlayerId |-> 0, votes |-> <<>>, scores |-> <<>>]

\* the room object createRoom builds; oid is the identity of the object.
\* scoringRuns and everJoined are history: the calls of calculateResults
\* since the last startGame, and the ids joinRoom has ever added.
NewRoom(code, host, oid) ==
  [code |-> code, host |-> host, oid |-> oid, players |-> <<>>,
   phase |-> "WAITING", crime |-> NullCrime, guiltyPlayerId |-> 0,
   alibis |-> <<>>, questions |-> <<>>, votes |-> <<>>,
   currentEvidence |-> <<>>, roundNumber |-> 0, results |-> NoResults,
   phaseTimer |-> 0, evidenceTimers |-> <<>>,
   scoringRuns |-> 0, everJoined |-> {}]

\* timer handles and object identities in use: fresh ones avoid them
UsedHandles(rs, ts) ==
  {t.id : t \in ts} \cup {t.batch : t \in ts}
    \cup {rs[c].phaseTimer : c \in DOMAIN rs}
    \cup UNION {Range(rs[c].evidenceTimers) : c \in DOMAIN rs}

\* the k-th smallest positive integer outside `used`
NthFree(used, k) ==
  CHOOSE n \in 1..(Cardinality(used) + k) :
    n \notin used /\ Cardinality({m \in 1..n : m \notin used}) = k

\* ------------------------------------------------------- broadcast gateway
\* a faulty snapshot that sends the crime in full to everyone
getPublicGameState_m(room, playerId) ==
  [phase |-> room.phase, crime |-> room.crime,
   isGuilty |-> room.guiltyPlayerId = playerId,
   players |-> room.players, alibis |-> room.alibis,
   questions |-> room.questions, currentEvidence |-> room.currentEvidence,
   results |-> room.results]

getPublicGameState(room, playerId) ==
  LET isGuilty == room.guiltyPlayerId = playerId
  IN [phase |-> room.phase,
      crime |-> IF isGuilty
                THEN [location |-> room.crime.location,
                      time |-> room.crime.time, hidden |-> TRUE]
                ELSE room.crime,
      isGuilty |-> isGuilty,
      players |-> room.players,
      alibis |-> room.alibis,
      questions |-> room.questions,
      currentEvidence |-> room.currentEvidence,
      results |-> room.results]

\* the players of the room that have a live connection, in Map order
Recipients(rs, cl, roomCode) ==
  IF roomCode \notin DOMAIN rs THEN <<>>
  ELSE SelectSeq(PlayerIds(rs[roomCode]), LAMBDA p : p \in DOMAIN cl)

\* a faulty broadcast that builds one snapshot, for the first recipient, and
\* sends it to everyone
broadcastPhaseUpdate_m(rs, cl, roomCode) ==
  LET to == Recipients(rs, cl, roomCode)
  IN [i \in 1..Len(to) |->
        [to |-> to[i], type |-> "PHASE_CHANGE",
         payload |-> getPublicGameState(rs[roomCode], to[1])]]

broadcastPhaseUpdate(rs, cl, roomCode) ==
  LET to == Recipients(rs, cl, roomCode)
  IN [i \in 1..Len(to) |->
        [to |-> to[i], type |-> "PHASE_CHANGE",
         payload |-> getPublicGameState(rs[roomCode], to[i])]]

broadcastToRoom(rs, cl, roomCode, type, payload) ==
  LET to == Recipients(rs, cl, roomCode)
  IN [i \in 1..Len(to) |-> [to |-> to[i], type |-> type, payload |-> payload]]

send(cl, ws, type, payload) ==
  IF ws \in DOMAIN cl THEN <<[to |-> ws, type |-> type, payload |-> payload]>>
  ELSE <<>>

\* ------------------------------------------------------------- scoring
\* s is the server state a handler threads through its calls:
\* [rooms, timers, outbox]

\* a faulty award that forgets the wager
votePoints_m(vote, guiltyPlayerId) ==
  IF vote.suspectId = guiltyPlayerId THEN CORRECT_POINTS ELSE 0

\* the points of one vote: 100 * confidence when it names the guilty player
votePoints(vote, guiltyPlayerId) ==
  IF vote.suspectId = guiltyPlayerId THEN CORRECT_POINTS * vote.confidence ELSE 0

RECURSIVE ScoreVotes(_, _, _)
\* votes.forEach over the voters in `todo`: returns [players, fooledCount, scores]
ScoreVotes(room, todo, acc) ==
  IF todo = {} THEN acc
  ELSE LET voterId == CHOOSE v \in todo : \A w \in todo : v <= w
           vote == room.votes[voterId]
           pos == PlayerPos([room EXCEPT !.players = acc.players], voterId)
       IN IF pos = 0
          THEN ScoreVotes(room, todo \ {voterId}, acc)
          ELSE LET correct == vote.suspectId = room.guiltyPlayerId
                   newScore == acc.players[pos].score
                                 + votePoints(vote, room.guiltyPlayerId)
                   acc1 == [players |-> [acc.players EXCEPT ![pos].score = newScore],
                            fooledCount |-> acc.fooledCount + (IF correct THEN 0 ELSE 1),
                            scores |-> (voterId :> newScore) @@ acc.scores]
               IN ScoreVotes(room, todo \ {voterId}, acc1)

\* a faulty loop that passes over the guilty player's own vote
scoredVoters_m(room) == DOMAIN room.votes \ {room.guiltyPlayerId}

\* room.gameState.votes.forEach: the voters the loop visits
scoredVoters(room) == DOMAIN room.votes

calculateResults(s, roomCode) ==
  IF roomCode \notin DOMAIN s.rooms THEN s
  ELSE LET room == s.rooms[roomCode]
           voted == ScoreVotes(room, scoredVoters(room),
                               [players |-> room.players, fooledCount |-> 0,
                                scores |-> <<>>])
           gpos == PlayerPos(room, room.guiltyPlayerId)
           players2 == IF gpos = 0 THEN voted.players
                       ELSE [voted.players EXCEPT
                               ![gpos].score = @ + voted.fooledCount * FOOLED_POINTS]
           scores2 == IF gpos = 0 THEN voted.scores
                      ELSE (room.guiltyPlayerId :> players2[gpos].score) @@ voted.scores
           results == [defined |-> TRUE, guiltyPlayerId |-> room.guiltyPlayerId,
                       votes |-> room.votes, scores |-> scores2]
       IN [s EXCEPT !.rooms[roomCode] =
             [room EXCEPT !.players = players2, !.results = results,
                          !.scoringRuns = @ + 1]]

\* ------------------------------------------------------ phase state machine
\* a faulty clearing that cancels the phase timer and leaves the evidence timers
clearTimers_m(ts, room) == {t \in ts : t.id # room.phaseTimer}

\* clearTimeout(phaseTimer); evidenceTimers.forEach(clearTimeout): what stays armed
clearTimers(ts, room) ==
  {t \in ts : t.id # room.phaseTimer /\ t.id \notin Range(room.evidenceTimers)}

\* a faulty test that also schedules the reveals when the accusations start
armsEvidence_m(room, phase) ==
  phase \in {"INTERROGATION", "ACCUSATIONS"} /\ room.crime.id # "null"

\* if (phase === 'INTERROGATION' && room.gameState.crime)
armsEvidence(room, phase) == phase = "INTERROGATION" /\ room.crime.id # "null"

startPhase(s, cl, roomCode, phase, duration) ==
  IF roomCode \notin DOMAIN s.rooms THEN s
  ELSE LET room == s.rooms[roomCode]
           kept == clearTimers(s.timers, room)
           r1 == [room EXCEPT !.phase = phase, !.evidenceTimers = <<>>]
           rooms1 == [s.rooms EXCEPT ![roomCode] = r1]
           out1 == s.outbox \o broadcastPhaseUpdate(rooms1, cl, roomCode)
           used == UsedHandles([rooms1 EXCEPT ![roomCode].phaseTimer = 0], kept)
           h0 == NthFree(used, 1)
           pt == IF duration # 0
                 THEN {[id |-> h0, batch |-> h0, kind |-> "phase", code |-> roomCode,
                        oid |-> room.oid, delay |-> duration, armedIn |-> phase,
                        evidence |-> [id |-> "none", revealTime |-> 0]]}
                 ELSE {}
           evs == IF armsEvidence(room, phase) THEN room.crime.evidence ELSE <<>>
           et == {[id |-> NthFree(used, i + 1), batch |-> h0, kind |-> "evidence",
                   code |-> roomCode, oid |-> room.oid,
                   delay |-> evs[i].revealTime * 1000, armedIn |-> phase,
                   evidence |-> evs[i]] : i \in 1..Len(evs)}
           r2 == [r1 EXCEPT !.phaseTimer = IF duration # 0 THEN h0 ELSE @,
                            !.evidenceTimers = [i \in 1..Len(evs) |-> NthFree(used, i + 1)]]
       IN [rooms |-> [rooms1 EXCEPT ![roomCode] = r2],
           timers |-> kept \cup pt \cup et,
           outbox |-> out1]

\* a faulty wrap that keeps the guilty player of the round
roundComplete_m(room) == [room EXCEPT !.phase = "WAITING"]

\* "Round complete": phase = 'WAITING', guiltyPlayerId = null
roundComplete(room) == [room EXCEPT !.phase = "WAITING", !.guiltyPlayerId = 0]

advancePhase(s, cl, roomCode) ==
  IF roomCode \notin DOMAIN s.rooms THEN s
  ELSE LET room == s.rooms[roomCode]
           currentIndex == IndexOf(phaseSequence, room.phase)
       IN IF currentIndex = -1 THEN s
          ELSE LET s1 == IF currentIndex = IndexOf(phaseSequence, "ACCUSATIONS")
                         THEN calculateResults(s, roomCode) ELSE s
               IN IF currentIndex < Len(phaseSequence) - 1
                  THEN LET nextPhase == phaseSequence[currentIndex + 2]
                       IN startPhase(s1, cl, roomCode, nextPhase, PHASE_DURATIONS[nextPhase])
                  ELSE LET rooms1 == [s1.rooms EXCEPT ![roomCode] = roundComplete(@)]
                       IN [s1 EXCEPT !.rooms = rooms1,
                                     !.outbox = @ \o broadcastPhaseUpdate(rooms1, cl, roomCode)]

\* a faulty guard that lets a room of three start
startGameRefused_m(rs, roomCode) ==
  roomCode \notin DOMAIN rs \/ Len(rs[roomCode].players) < MIN_PLAYERS - 1

\* if (!room || room.players.size < 4) return
startGameRefused(rs, roomCode) ==
  roomCode \notin DOMAIN rs \/ Len(rs[roomCode].players) < MIN_PLAYERS

\* a faulty choice that stores the drawn index instead of the id at it
pickGuilty_m(room, guiltyIdx) == guiltyIdx - 1

\* playerIds[Math.floor(Math.random() * playerIds.length)]
pickGuilty(room, guiltyIdx) == PlayerIds(room)[guiltyIdx]

\* a faulty reset that keeps the votes of the round before
resetGameData_m(room) ==
  [room EXCEPT !.alibis = <<>>, !.questions = <<>>, !.currentEvidence = <<>>]

\* "Reset game data": alibis.clear(), questions = [], votes.clear(),
\* currentEvidence = []
resetGameData(room) ==
  [room EXCEPT !.alibis = <<>>, !.questions = <<>>, !.votes = <<>>,
               !.currentEvidence = <<>>]

\* startGame(roomCode) with the two Math.random() draws as inputs
startGame(s, cl, roomCode, crimeIdx, guiltyIdx) ==
  IF startGameRefused(s.rooms, roomCode) THEN s
  ELSE LET room == s.rooms[roomCode]
           r1 == resetGameData(
                   [room EXCEPT !.roundNumber = @ + 1,
                                !.phase = "SETUP",
                                !.crime = getCrimes[crimeIdx],
                                !.guiltyPlayerId = pickGuilty(room, guiltyIdx),
                                !.scoringRuns = 0])
       IN startPhase([s EXCEPT !.rooms[roomCode] = r1], cl, roomCode,
                     "SETUP", PHASE_DURATIONS["SETUP"])

\* a setTimeout callback runs: the phase timer calls advancePhase(roomCode),
\* an evidence timer pushes onto the room object it closed over and
\* broadcasts to whatever room the code names now
fireTimer(s, cl, t) ==
  LET s0 == [s EXCEPT !.timers = @ \ {t}]
  IN IF t.kind = "phase"
     THEN advancePhase(s0, cl, t.code)
     ELSE LET rooms1 ==
                IF t.code \in DOMAIN s0.rooms /\ s0.rooms[t.code].oid = t.oid
                THEN [s0.rooms EXCEPT ![t.code].currentEvidence = Append(@, t.evidence)]
                ELSE s0.rooms
          IN [s0 EXCEPT !.rooms = rooms1,
                        !.outbox = @ \o broadcastToRoom(rooms1, cl, t.code,
                                          "EVIDENCE_REVEALED", [evidence |-> t.evidence])]

\* faulty refusals that let a ninth player into a room of eight
joinErrorNinth_m(rs, roomCode) ==
  IF roomCode \notin DOMAIN rs THEN "Room not found"
  ELSE IF Len(rs[roomCode].players) > MAX_PLAYERS THEN "Room is full"
  ELSE IF rs[roomCode].phase # "WAITING" THEN "Game already in progress"
  ELSE "none"

\* faulty refusals that test the phase before the size
joinError_m(rs, roomCode) ==
  IF roomCode \notin DOMAIN rs THEN "Room not found"
  ELSE IF rs[roomCode].phase # "WAITING" THEN "Game already in progress"
  ELSE IF Len(rs[roomCode].players) >= MAX_PLAYERS THEN "Room is full"
  ELSE "none"

\* the three refusals of joinRoom, in the order the code tests them
joinError(rs, roomCode) ==
  IF roomCode \notin DOMAIN rs THEN "Room not found"
  ELSE IF Len(rs[roomCode].players) >= MAX_PLAYERS THEN "Room is full"
  ELSE IF rs[roomCode].phase # "WAITING" THEN "Game already in progress"
  ELSE "none"

Min(a, b) == IF a < b THEN a ELSE b
Max(a, b) == IF a > b THEN a ELSE b

S0 == [rooms |-> rooms, timers |-> timers, outbox |-> <<>>]

Commit(s) ==
  /\ rooms' = s.rooms
  /\ timers' = s.timers
  /\ outbox' = s.outbox

Event(op, conn, arg) == [op |-> op, conn |-> conn, arg |-> arg]

\* ------------------------------------------------------------ actions
Init ==
  /\ rooms = <<>>
  /\ clients = <<>>
  /\ nextId = 0
  /\ nextOid = 0
  /\ timers = {}
  /\ outbox = <<>>
  /\ last = Event("INIT", 0, "null")

\* wss.on('connection'): at most maxConns connections are ever opened
Connect(maxConns) ==
  /\ nextId < maxConns
  /\ LET ws == nextId + 1
     IN /\ nextId' = ws
        /\ clients' = (ws :> [playerId |-> ws, roomCode |-> "null", playerName |-> "null"])
                        @@ clients
        /\ outbox' = <<[to |-> ws, type |-> "CONNECTED", payload |-> [playerId |-> ws]]>>
        /\ last' = Event("CONNECT", ws, "null")
  /\ UNCHANGED <<rooms, nextOid, timers>>

\* CREATE_ROOM: roomCode is what generateRoomCode drew
CreateRoom(ws, roomCode) ==
  /\ ws \in DOMAIN clients
  /\ nextOid' = nextOid + 1
  /\ rooms' = (roomCode :> NewRoom(roomCode, ws, nextOid + 1)) @@ rooms
  /\ outbox' = send(clients, ws, "ROOM_CREATED", [roomCode |-> roomCode])
  /\ last' = Event("CREATE_ROOM", ws, roomCode)
  /\ UNCHANGED <<clients, nextId, timers>>

\* a faulty index that counts the joins the room has seen
paletteIndex_m(room) == Cardinality(room.everJoined) % PALETTE_SIZE

\* colorIndex and avatarIndex: room.players.size % 8
paletteIndex(room) == Len(room.players) % PALETTE_SIZE

\* JOIN_ROOM{roomCode, playerName}
JoinRoom(ws, roomCode, playerName) ==
  /\ ws \in DOMAIN clients
  /\ last' = Event("JOIN_ROOM", ws, roomCode)
  /\ UNCHANGED <<nextId, nextOid, timers>>
  /\ IF joinError(rooms, roomCode) # "none"
     THEN /\ outbox' = send(clients, ws, "ERROR", [message |-> joinError(rooms, roomCode)])
          /\ UNCHANGED <<rooms, clients>>
     ELSE LET room == rooms[roomCode]
              idx == paletteIndex(room)
              player == [id |-> ws, name |-> playerName, color |-> idx,
                         avatar |-> idx, score |-> 0, isGuilty |-> FALSE]
              pos == PlayerPos(room, ws)
              players1 == IF pos = 0 THEN Append(room.players, player)
                          ELSE [room.players EXCEPT ![pos] = player]
              rooms1 == [rooms EXCEPT ![roomCode].players = players1,
                                      ![roomCode].everJoined = @ \cup {ws}]
          IN /\ clients' = [clients EXCEPT ![ws].roomCode = roomCode,
                                           ![ws].playerName = playerName]
             /\ rooms' = rooms1
             /\ outbox' = broadcastToRoom(rooms1, clients, roomCode, "PLAYER_JOINED",
                                          [player |-> player, playerCount |-> Len(players1)])
                          \o send(clients, ws, "ROOM_JOINED",
                                  [roomCode |-> roomCode, players |-> players1,
                                   gameState |-> getPublicGameState(rooms1[roomCode], ws)])

\* START_GAME; crimeIdx and guiltyIdx are the two Math.random() draws
StartGame(ws, crimeIdx, guiltyIdx) ==
  /\ ws \in DOMAIN clients
  /\ LET roomCode == clients[ws].roomCode
         draws == ~startGameRefused(rooms, roomCode)
     IN /\ draws => /\ rooms[roomCode].roundNumber < MaxRounds
                    /\ guiltyIdx \in 1..Min(GuiltyDraws, Len(rooms[roomCode].players))
                    /\ crimeIdx \in 1..Min(CrimeDraws, Len(getCrimes))
        /\ ~draws => crimeIdx = 1 /\ guiltyIdx = 1
        /\ Commit(startGame(S0, clients, roomCode, crimeIdx, guiltyIdx))
        /\ last' = Event("START_GAME", ws, roomCode)
  /\ UNCHANGED <<clients, nextId, nextOid>>

\* a faulty clamp that has no upper end
clampConfidence_m(confidence) == Max(1, confidence)

\* Math.min(3, Math.max(1, confidence))
clampConfidence(confidence) == Min(3, Max(1, confidence))

\* SUBMIT_VOTE{suspectId, confidence}
SubmitVote(ws, suspectId, confidence) ==
  /\ ws \in DOMAIN clients
  /\ LET roomCode == clients[ws].roomCode
     IN IF roomCode \notin DOMAIN rooms \/ rooms[roomCode].phase # "ACCUSATIONS"
        THEN /\ rooms' = rooms
             /\ outbox' = <<>>
        ELSE LET vote == [suspectId |-> suspectId,
                          confidence |-> clampConfidence(confidence)]
                 rooms1 == [rooms EXCEPT ![roomCode].votes = (ws :> vote) @@ @]
             IN /\ rooms' = rooms1
                /\ outbox' = broadcastToRoom(rooms1, clients, roomCode, "VOTE_SUBMITTED",
                                             [playerId |-> ws])
  /\ last' = Event("SUBMIT_VOTE", ws, <<suspectId, confidence>>)
  /\ UNCHANGED <<clients, nextId, nextOid, timers>>

\* a faulty guard that also takes alibis while the round is set up
alibiRefused_m(rs, roomCode) ==
  roomCode \notin DOMAIN rs
    \/ rs[roomCode].phase \notin {"SETUP", "ALIBI_CONSTRUCTION"}

\* if (!room || room.gameState.phase !== 'ALIBI_CONSTRUCTION') return
alibiRefused(rs, roomCode) ==
  roomCode \notin DOMAIN rs \/ rs[roomCode].phase # "ALIBI_CONSTRUCTION"

\* SUBMIT_ALIBI{alibi}
SubmitAlibi(ws, alibi) ==
  /\ ws \in DOMAIN clients
  /\ LET roomCode == clients[ws].roomCode
     IN IF alibiRefused(rooms, roomCode)
        THEN /\ rooms' = rooms
             /\ outbox' = <<>>
        ELSE LET rooms1 == [rooms EXCEPT ![roomCode].alibis = (ws :> alibi) @@ @]
             IN /\ rooms' = rooms1
                /\ outbox' = broadcastToRoom(rooms1, clients, roomCode, "ALIBI_SUBMITTED",
                                             [playerId |-> ws])
  /\ last' = Event("SUBMIT_ALIBI", ws, alibi)
  /\ UNCHANGED <<clients, nextId, nextOid, timers>>

\* room.gameState.questions.filter(q => q.from === playerId).length
questionsAsked(room, playerId) ==
  Cardinality({i \in 1..Len(room.questions) : room.questions[i].from = playerId})

\* a faulty limit that lets a fourth question through
askRefused_m(rs, roomCode, playerId) ==
  \/ roomCode \notin DOMAIN rs
  \/ rs[roomCode].phase # "INTERROGATION"
  \/ questionsAsked(rs[roomCode], playerId) > MAX_QUESTIONS

\* the two early returns of askQuestion
askRefused(rs, roomCode, playerId) ==
  \/ roomCode \notin DOMAIN rs
  \/ rs[roomCode].phase # "INTERROGATION"
  \/ questionsAsked(rs[roomCode], playerId) >= MAX_QUESTIONS

\* answer: null, as askQuestion stores it
NullAnswer == [isNull |-> TRUE, text |-> ""]

\* JavaScript truthiness of a stored answer: null and "" are falsy
Truthy(answer) == ~answer.isNull /\ answer.text # ""

\* ASK_QUESTION{toId, question}.  The id q_${Date.now()}_${Math.random()} is
\* fresh: the round and the position in the round's list stand for it.
AskQuestion(ws, toId, questionText) ==
  /\ ws \in DOMAIN clients
  /\ LET roomCode == clients[ws].roomCode
     IN IF askRefused(rooms, roomCode, ws)
        THEN /\ rooms' = rooms
             /\ outbox' = <<>>
        ELSE LET room == rooms[roomCode]
                 question == [id |-> <<room.roundNumber, Len(room.questions) + 1>>,
                              from |-> ws, to |-> toId, question |-> questionText,
                              answer |-> NullAnswer]
                 rooms1 == [rooms EXCEPT ![roomCode].questions = Append(@, question)]
             IN /\ rooms' = rooms1
                /\ outbox' = broadcastToRoom(rooms1, clients, roomCode, "NEW_QUESTION",
                                             [question |-> question])
  /\ last' = Event("ASK_QUESTION", ws, toId)
  /\ UNCHANGED <<clients, nextId, nextOid, timers>>

\* questions.find(q => q.id === questionId): its position, 0 when absent
QuestionPos(room, questionId) ==
  IF \E i \in 1..Len(room.questions) : room.questions[i].id = questionId
  THEN CHOOSE i \in 1..Len(room.questions) : room.questions[i].id = questionId
  ELSE 0

\* a faulty guard that takes the answer from any player of the room
answerRefused_m(rs, roomCode, questionId, playerId) ==
  \/ roomCode \notin DOMAIN rs
  \/ QuestionPos(rs[roomCode], questionId) = 0
  \/ Truthy(rs[roomCode].questions[QuestionPos(rs[roomCode], questionId)].answer)

\* the two early returns of answerQuestion
answerRefused(rs, roomCode, questionId, playerId) ==
  \/ roomCode \notin DOMAIN rs
  \/ QuestionPos(rs[roomCode], questionId) = 0
  \/ rs[roomCode].questions[QuestionPos(rs[roomCode], questionId)].to # playerId
  \/ Truthy(rs[roomCode].questions[QuestionPos(rs[roomCode], questionId)].answer)

\* ANSWER_QUESTION{questionId, answer}
AnswerQuestion(ws, questionId, answer) ==
  /\ ws \in DOMAIN clients
  /\ LET roomCode == clients[ws].roomCode
         pos == IF roomCode \in DOMAIN rooms
                THEN QuestionPos(rooms[roomCode], questionId) ELSE 0
     IN IF answerRefused(rooms, roomCode, questionId, ws)
        THEN /\ rooms' = rooms
             /\ outbox' = <<>>
        ELSE LET rooms1 == [rooms EXCEPT ![roomCode].questions[pos].answer =
                                           [isNull |-> FALSE, text |-> answer]]
             IN /\ rooms' = rooms1
                /\ outbox' = broadcastToRoom(rooms1, clients, roomCode, "QUESTION_ANSWERED",
                                             [questionId |-> questionId, answer |-> answer])
  /\ last' = Event("ANSWER_QUESTION", ws, <<questionId, answer>>)
  /\ UNCHANGED <<clients, nextId, nextOid, timers>>

\* the event loop runs a due timer.  Timers armed by the same startPhase call
\* come due in the order of their delays.
TimerFire(t) ==
  /\ t \in timers
  /\ \A u \in timers : u.batch = t.batch => t.delay <= u.delay
  /\ Commit(fireTimer(S0, clients, t))
  /\ last' = Event(IF t.kind = "phase" THEN "PHASE_TIMER" ELSE "EVIDENCE_TIMER", 0, t.code)
  /\ UNCHANGED <<clients, nextId, nextOid>>

\* a faulty removal that also ends the round when the guilty player leaves
removePlayer_m(room, playerId) ==
  [room EXCEPT !.players = SelectSeq(@, LAMBDA p : p.id # playerId),
               !.phase = IF playerId = room.guiltyPlayerId THEN "WAITING" ELSE @]

\* room.players.delete(playerId)
removePlayer(room, playerId) ==
  [room EXCEPT !.players = SelectSeq(@, LAMBDA p : p.id # playerId)]

\* ws.on('close')
Disconnect(ws) ==
  /\ ws \in DOMAIN clients
  /\ LET roomCode == clients[ws].roomCode
         cl1 == [c \in DOMAIN clients \ {ws} |-> clients[c]]
     IN /\ clients' = cl1
        /\ IF roomCode # "null" /\ roomCode \in DOMAIN rooms
           THEN LET room == removePlayer(rooms[roomCode], ws)
                    players1 == room.players
                    rooms1 == [rooms EXCEPT ![roomCode] = room]
                IN /\ outbox' = broadcastToRoom(rooms1, cl1, roomCode, "PLAYER_LEFT",
                                  [playerId |-> ws, playerCount |-> Len(players1)])
                   /\ rooms' = IF Len(players1) = 0
                               THEN [c \in DOMAIN rooms \ {roomCode} |-> rooms[c]]
                               ELSE rooms1
           ELSE /\ outbox' = <<>>
                /\ rooms' = rooms
        /\ last' = Event("DISCONNECT", ws, roomCode)
  /\ UNCHANGED <<nextId, nextOid, timers>>

\* what reading a missing property of the payload gives
Undefined == "undefined"

\* a payload object with none of the properties the handlers read
EmptyPayload ==
  [roomCode |-> Undefined, playerName |-> Undefined, alibi |-> Undefined,
   toId |-> Undefined, question |-> Undefined, questionId |-> Undefined,
   answer |-> Undefined, suspectId |-> Undefined, confidence |-> Undefined]

\* the message types whose case of handleMessage reads message.payload
ReadsPayload ==
  {"JOIN_ROOM", "SUBMIT_ALIBI", "ASK_QUESTION", "ANSWER_QUESTION", "SUBMIT_VOTE"}

\* why ws.on('message') does nothing with the data: JSON.parse throws, the
\* switch has no case for the type, or reading a property of a missing
\* payload throws inside the try block; "none" when the message is handled
dropCause(m) ==
  IF ~m.parses THEN "unparseable"
  ELSE IF m.type \notin ReadsPayload \cup {"CREATE_ROOM", "START_GAME"}
       THEN "unknown type"
  ELSE IF m.type \in ReadsPayload /\ ~m.hasPayload THEN "no payload"
  ELSE "none"

\* ws.on('message'): parse, then handleMessage's switch.  m is the data
\* received: whether it parses, and the type and payload it parses to.
\* code, crimeIdx and guiltyIdx are the draws of Math.random().
HandleMessage(ws, m, code, crimeIdx, guiltyIdx) ==
  /\ ws \in DOMAIN clients
  /\ IF dropCause(m) # "none"
     THEN /\ outbox' = <<>>
          /\ last' = Event("MESSAGE", ws, dropCause(m))
          /\ UNCHANGED <<rooms, clients, nextId, nextOid, timers>>
     ELSE CASE m.type = "CREATE_ROOM" -> CreateRoom(ws, code)
            [] m.type = "JOIN_ROOM" ->
                 JoinRoom(ws, m.payload.roomCode, m.payload.playerName)
            [] m.type = "START_GAME" -> StartGame(ws, crimeIdx, guiltyIdx)
            [] m.type = "SUBMIT_ALIBI" -> SubmitAlibi(ws, m.payload.alibi)
            [] m.type = "ASK_QUESTION" ->
                 AskQuestion(ws, m.payload.toId, m.payload.question)
            [] m.type = "ANSWER_QUESTION" ->
                 AnswerQuestion(ws, m.payload.questionId, m.payload.answer)
            [] m.type = "SUBMIT_VOTE" ->
                 SubmitVote(ws, m.payload.suspectId, m.payload.confidence)

\* ------------------------------------------------------------ one room
\* The environment of Spec: connections arrive one after the other, each
\* joining before the next arrives; generateRoomCode draws a code that is
\* free; a connection asks to join a room it is not yet in.
Arrive == (\A c \in DOMAIN clients : clients[c].roomCode # "null") /\ Connect(MaxConns)
Create == \E ws \in DOMAIN clients, c \in Codes \ DOMAIN rooms : CreateRoom(ws, c)
Join ==
  \E ws \in DOMAIN clients, c \in Codes, n \in Names :
    /\ c \in DOMAIN rooms => PlayerPos(rooms[c], ws) = 0
    /\ JoinRoom(ws, c, n)
Start ==
  \E ws \in DOMAIN clients, ci \in 1..Len(getCrimes), gi \in 1..MAX_PLAYERS :
    StartGame(ws, ci, gi)
Fire == \E t \in timers : TimerFire(t)
Leave == \E ws \in DOMAIN clients : Disconnect(ws)

Next == Arrive \/ Create \/ Join \/ Start \/ Fire \/ Leave

\* ------------------------------------------------------------ properties
\* the room a connection's roomCode names, when the registry has it
HasRoom(ws) == ws \in DOMAIN clients /\ clients[ws].roomCode \in DOMAIN rooms
RoomOf(ws) == rooms[clients[ws].roomCode]

\* the timers of the event loop that were armed for the room object
ArmedFor(room) == {t \in timers : t.oid = room.oid}

\* C1: for every room of the registry at most one phase timer is armed, it
\* is the one the latest startPhase stored in timers.phaseTimer, and every
\* armed evidence timer is one the latest startPhase stored in
\* timers.evidenceTimers: timers of an earlier startPhase are cancelled.
OnlyLatestTimersArmed ==
  \A c \in DOMAIN rooms :
    LET room == rooms[c]
    IN /\ Cardinality({t \in ArmedFor(room) : t.kind = "phase"}) <= 1
       /\ \A t \in ArmedFor(room) :
            /\ t.kind = "phase" => t.id = room.phaseTimer
            /\ t.kind = "evidence" => t.id \in Range(room.evidenceTimers)
            /\ t.armedIn = room.phase

\* a second round was started while the first was still running (its results
\* were never computed), and the room is now in the second interrogation
\* with one evidence timer and the phase timer still armed
TimersReplacedWitness ==
  \E c \in DOMAIN rooms :
    /\ rooms[c].roundNumber = 2
    /\ ~rooms[c].results.defined
    /\ rooms[c].phase = "INTERROGATION"
    /\ Len(rooms[c].currentEvidence) = 1
    /\ Cardinality(ArmedFor(rooms[c])) = 2

\* the successor of a phase in the fixed cycle
NextInCycle(phase) ==
  CASE phase = "WAITING" -> "SETUP"
    [] phase = "SETUP" -> "ALIBI_CONSTRUCTION"
    [] phase = "ALIBI_CONSTRUCTION" -> "INTERROGATION"
    [] phase = "INTERROGATION" -> "ACCUSATIONS"
    [] phase = "ACCUSATIONS" -> "RESULTS"
    [] phase = "RESULTS" -> "WAITING"

\* the same room object is in the registry before and after the step
SameRoom(c) == c \in DOMAIN rooms /\ c \in DOMAIN rooms' /\ rooms[c].oid = rooms'[c].oid

\* the ids in room.players
PlayerSet(room) == Range(PlayerIds(room))

\* C2: every change of a room's phase goes to the successor of the phase in
\* the cycle WAITING, SETUP, ALIBI_CONSTRUCTION, INTERROGATION, ACCUSATIONS,
\* RESULTS, WAITING.
PhaseFollowsCycle ==
  [][\A c \in DOMAIN rooms :
       (SameRoom(c) /\ rooms'[c].phase # rooms[c].phase)
         => rooms'[c].phase = NextInCycle(rooms[c].phase)]_vars

\* C3: START_GAME for a room whose phase is not WAITING changes no room, no
\* timer and sends nothing.
StartGameOutsideWaitingIgnored ==
  [][(/\ last'.op = "START_GAME"
      /\ HasRoom(last'.conn)
      /\ RoomOf(last'.conn).phase # "WAITING")
       => (rooms' = rooms /\ timers' = timers /\ outbox' = <<>>)]_vars

\* C4: START_GAME from a connection in no room, or for a room with fewer
\* than 4 players, changes no room, arms no timer and sends nothing (so a
\* room in WAITING stays in WAITING).
StartGameBelowMinimumIgnored ==
  [][(/\ last'.op = "START_GAME"
      /\ (~HasRoom(last'.conn) \/ Len(RoomOf(last'.conn).players) < 4))
       => (/\ rooms' = rooms
           /\ timers' = timers
           /\ clients' = clients
           /\ outbox' = <<>>)]_vars

\* START_GAME was just handled for a waiting room of three players
StartGameBelowMinimumWitness ==
  /\ last.op = "START_GAME"
  /\ HasRoom(last.conn)
  /\ Len(RoomOf(last.conn).players) = 3
  /\ RoomOf(last.conn).phase = "WAITING"
  /\ RoomOf(last.conn).roundNumber = 0
  /\ timers = {}
  /\ outbox = <<>>

\* C6: calculateResults runs exactly once between one effective startGame
\* and the next, and a room is in RESULTS only after it ran.
ScoringOncePerRound ==
  [][\A c \in DOMAIN rooms :
       /\ (SameRoom(c) /\ rooms[c].roundNumber >= 1
             /\ rooms'[c].roundNumber = rooms[c].roundNumber + 1)
            => rooms[c].scoringRuns = 1
       /\ (SameRoom(c) /\ rooms'[c].phase = "RESULTS")
            => rooms'[c].scoringRuns = 1]_vars

\* the game-state snapshots of the outbox, each with its recipient
Snapshots ==
  {[to |-> outbox[i].to, state |-> outbox[i].payload] :
     i \in {j \in 1..Len(outbox) : outbox[j].type = "PHASE_CHANGE"}}
  \cup
  {[to |-> outbox[i].to, state |-> outbox[i].payload.gameState] :
     i \in {j \in 1..Len(outbox) : outbox[j].type = "ROOM_JOINED"}}

\* the rooms a snapshot can have been taken of
SnapshotRooms(snap) ==
  {c \in DOMAIN rooms : /\ PlayerPos(rooms[c], snap.to) # 0
                        /\ snap.state.players = rooms[c].players}

\* C7: a snapshot sent to the room's guilty player carries isGuilty = TRUE
\* and a crime of exactly location, time and hidden = TRUE; a snapshot sent
\* to anyone else carries isGuilty = FALSE and the room's crime in full.
SnapshotsArePersonalised ==
  \A snap \in Snapshots :
    /\ SnapshotRooms(snap) # {}
    /\ \A c \in SnapshotRooms(snap) :
         IF snap.to = rooms[c].guiltyPlayerId
         THEN /\ snap.state.isGuilty = TRUE
              /\ DOMAIN snap.state.crime = {"location", "time", "hidden"}
              /\ snap.state.crime.hidden = TRUE
              /\ snap.state.crime.location = rooms[c].crime.location
              /\ snap.state.crime.time = rooms[c].crime.time
         ELSE /\ snap.state.isGuilty = FALSE
              /\ snap.state.crime = rooms[c].crime

\* one broadcast reached the guilty player and an innocent one
SnapshotsWitness ==
  \E a, b \in Snapshots : \E c \in SnapshotRooms(a) \cap SnapshotRooms(b) :
    /\ a.to = rooms[c].guiltyPlayerId
    /\ b.to # rooms[c].guiltyPlayerId
    /\ a.state.crime.hidden = TRUE
    /\ b.state.crime.title = "Art Theft"

\* C8: nothing reveals evidence to the round's guilty player: no
\* EVIDENCE_REVEALED is sent to them and no snapshot sent to them lists
\* revealed evidence.
EvidenceOnlyToInnocents ==
  /\ \A i \in 1..Len(outbox) :
       outbox[i].type = "EVIDENCE_REVEALED"
         => \A c \in DOMAIN rooms :
              PlayerPos(rooms[c], outbox[i].to) # 0
                => outbox[i].to # rooms[c].guiltyPlayerId
  /\ \A snap \in Snapshots : \A c \in SnapshotRooms(snap) :
       snap.to = rooms[c].guiltyPlayerId => snap.state.currentEvidence = <<>>

\* C9: joinRoom refuses an unknown code with "Room not found", else a room
\* of 8 players with "Room is full", else a room outside WAITING with "Game
\* already in progress"; the ERROR goes to the requester alone and nothing
\* else changes: no room, no connection record, no timer.
JoinRefused(message) ==
  /\ outbox' = <<[to |-> last'.conn, type |-> "ERROR", payload |-> [message |-> message]]>>
  /\ rooms' = rooms
  /\ clients' = clients
  /\ timers' = timers
  /\ last'.conn \in DOMAIN clients'

JoinRoomRefusals ==
  [][last'.op = "JOIN_ROOM" =>
       LET code == last'.arg
       IN /\ code \notin DOMAIN rooms => JoinRefused("Room not found")
          /\ (code \in DOMAIN rooms /\ Len(rooms[code].players) >= 8)
               => JoinRefused("Room is full")
          /\ (code \in DOMAIN rooms /\ Len(rooms[code].players) < 8
                /\ rooms[code].phase # "WAITING")
               => JoinRefused("Game already in progress")]_vars

\* a ninth connection was just refused by a room of 8 whose game is running
JoinRefusedFullWitness ==
  /\ last.op = "JOIN_ROOM"
  /\ last.arg \in DOMAIN rooms
  /\ Len(rooms[last.arg].players) = 8
  /\ rooms[last.arg].phase = "ALIBI_CONSTRUCTION"
  /\ PlayerPos(rooms[last.arg], last.conn) = 0
  /\ outbox = <<[to |-> last.conn, type |-> "ERROR",
                 payload |-> [message |-> "Room is full"]]>>

\* C10: a room whose joiners have all closed their connections is not in
\* the registry (so a later JOIN_ROOM with its code is refused with "Room
\* not found").
AbandonedRoomRemoved ==
  \A c \in DOMAIN rooms :
    rooms[c].everJoined # {} => rooms[c].everJoined \cap DOMAIN clients # {}

\* what the claim awards player p of the room for the round's votes
Award(room, p) ==
  LET votes == room.votes
      wrong == {v \in DOMAIN votes \cap PlayerSet(room) :
                  votes[v].suspectId # room.guiltyPlayerId}
  IN (IF p \in DOMAIN votes /\ votes[p].suspectId = room.guiltyPlayerId
      THEN 100 * votes[p].confidence ELSE 0)
     + (IF p = room.guiltyPlayerId THEN 150 * Cardinality(wrong) ELSE 0)

\* C5: the step from ACCUSATIONS to RESULTS adds to each player of the room
\* 100 * confidence for a recorded vote that names the guilty player, and to
\* the guilty player 150 for each player of the room whose recorded vote
\* names someone else; players without a vote gain nothing and are not
\* counted.  The recorded vote of a player is the last one they sent.
ServerScoring ==
  [][/\ \A c \in DOMAIN rooms :
          (SameRoom(c) /\ rooms[c].phase = "ACCUSATIONS" /\ rooms'[c].phase = "RESULTS")
            => /\ PlayerIds(rooms'[c]) = PlayerIds(rooms[c])
               /\ \A i \in 1..Len(rooms[c].players) :
                    rooms'[c].players[i].score =
                      rooms[c].players[i].score + Award(rooms[c], rooms[c].players[i].id)
     /\ (last'.op = "SUBMIT_VOTE" /\ HasRoom(last'.conn)
           /\ RoomOf(last'.conn).phase = "ACCUSATIONS")
          => LET c == clients[last'.conn].roomCode
             IN /\ DOMAIN rooms'[c].votes = DOMAIN rooms[c].votes \cup {last'.conn}
                /\ rooms'[c].votes[last'.conn].suspectId = last'.arg[1]
                /\ \A v \in DOMAIN rooms[c].votes \ {last'.conn} :
                     rooms'[c].votes[v] = rooms[c].votes[v]]_vars

\* the scoring just ran on: A votes the guilty player G with confidence 2,
\* B votes an innocent player; A has 200, G has 150, B has 0
ScoringExampleWitness ==
  \E c \in DOMAIN rooms : \E a, b, g \in PlayerSet(rooms[c]) :
    LET room == rooms[c]
        score(p) == room.players[PlayerPos(room, p)].score
    IN /\ last.op = "PHASE_TIMER" /\ room.phase = "RESULTS"
       /\ g = room.guiltyPlayerId /\ a # g /\ b # g /\ a # b
       /\ DOMAIN room.votes = {a, b}
       /\ room.votes[a] = [suspectId |-> g, confidence |-> 2]
       /\ room.votes[b].suspectId # g
       /\ score(a) = 200 /\ score(g) = 150 /\ score(b) = 0

\* C11: a disconnect that leaves the room in the registry removes the
\* leaving player from it and changes nothing else of the room (phase,
\* timer handles, crime, guilty player, questions, alibis, votes, the other
\* players and their scores), no other room and no armed timer; and every
\* phase change a timer makes sends PHASE_CHANGE to each player of the room
\* whose connection is open.
DisconnectKeepsRound ==
  [][/\ (last'.op = "DISCONNECT" /\ last'.arg \in DOMAIN rooms')
          => LET c == last'.arg
                 left == last'.conn
             IN /\ timers' = timers
                /\ DOMAIN rooms' = DOMAIN rooms
                /\ \A d \in DOMAIN rooms \ {c} : rooms'[d] = rooms[d]
                /\ rooms'[c] =
                     [rooms[c] EXCEPT !.players = SelectSeq(@, LAMBDA p : p.id # left)]
     /\ \A c \in DOMAIN rooms :
          (last'.op = "PHASE_TIMER" /\ SameRoom(c) /\ rooms'[c].phase # rooms[c].phase)
            => \A p \in PlayerSet(rooms'[c]) \cap DOMAIN clients' :
                 \E i \in 1..Len(outbox') :
                   /\ outbox'[i].to = p
                   /\ outbox'[i].type = "PHASE_CHANGE"
                   /\ outbox'[i].payload.phase = rooms'[c].phase]_vars

\* the guilty player has left a running round, the timer then moved the
\* room to INTERROGATION and the three who stayed were told
DisconnectKeepsRoundWitness ==
  \E c \in DOMAIN rooms :
    /\ last.op = "PHASE_TIMER"
    /\ rooms[c].phase = "INTERROGATION"
    /\ rooms[c].guiltyPlayerId # 0
    /\ rooms[c].guiltyPlayerId \notin PlayerSet(rooms[c])
    /\ Len(rooms[c].players) = 3
    /\ Len(outbox) = 3
    /\ Cardinality(ArmedFor(rooms[c])) = 3

\* C17: an effective startGame sets guiltyPlayerId to the id of a player
\* who is in the room at that moment.
GuiltyIsAPlayer ==
  [][\A c \in DOMAIN rooms :
       (last'.op = "START_GAME" /\ SameRoom(c)
          /\ rooms'[c].roundNumber = rooms[c].roundNumber + 1)
         => /\ rooms'[c].guiltyPlayerId \in PlayerSet(rooms[c])
            /\ PlayerSet(rooms'[c]) = PlayerSet(rooms[c])]_vars

\* a round has just been started and its guilty player is one of the four
GuiltyIsAPlayerWitness ==
  \E c \in DOMAIN rooms :
    /\ last.op = "START_GAME"
    /\ rooms[c].phase = "SETUP"
    /\ rooms[c].roundNumber = 1
    /\ Len(rooms[c].players) = 4
    /\ rooms[c].guiltyPlayerId \in PlayerSet(rooms[c])

\* the guilty player of the round before, for a room that waits for its
\* next round
PreviousGuilty(room) == room.results.guiltyPlayerId

\* START_GAME has started the next round of a room that had finished one
NextRoundStarted(c) ==
  /\ last'.op = "START_GAME"
  /\ SameRoom(c)
  /\ rooms[c].phase = "WAITING"
  /\ rooms[c].results.defined
  /\ rooms'[c].roundNumber = rooms[c].roundNumber + 1

\* C18 as claimed: the guilty player of round n+1 differs from the guilty
\* player of round n when the room has more than one player.
NeverReusesGuilty ==
  [][\A c \in DOMAIN rooms :
       (NextRoundStarted(c) /\ Len(rooms[c].players) > 1)
         => rooms'[c].guiltyPlayerId # PreviousGuilty(rooms[c])]_vars

\* C18 as amended: the guilty player of round n+1 is drawn among the players
\* now in the room, the guilty player of round n included.
GuiltyDrawnAmongPlayers ==
  [][\A c \in DOMAIN rooms :
       NextRoundStarted(c) => rooms'[c].guiltyPlayerId \in PlayerSet(rooms'[c])]_vars

\* round 2 has just started with the guilty player of round 1
GuiltyReusedWitness ==
  \E c \in DOMAIN rooms :
    /\ last.op = "START_GAME"
    /\ rooms[c].roundNumber = 2
    /\ rooms[c].phase = "SETUP"
    /\ rooms[c].results.defined
    /\ rooms[c].guiltyPlayerId = PreviousGuilty(rooms[c])
    /\ rooms[c].guiltyPlayerId \in PlayerSet(rooms[c])

\* JOIN_ROOM has just added the connection to room c
Joined(c) ==
  /\ last'.op = "JOIN_ROOM"
  /\ last'.arg = c
  /\ c \in DOMAIN rooms /\ c \in DOMAIN rooms'
  /\ PlayerPos(rooms[c], last'.conn) = 0
  /\ PlayerPos(rooms'[c], last'.conn) # 0

\* the ROOM_JOINED the step sent lists the players in join order: those who
\* were in the room, in their order, then the joiner
JoinOrderKept(c) ==
  /\ rooms'[c].players = Append(rooms[c].players, rooms'[c].players[Len(rooms'[c].players)])
  /\ rooms'[c].players[Len(rooms'[c].players)].id = last'.conn
  /\ \E i \in 1..Len(outbox') :
       /\ outbox'[i].type = "ROOM_JOINED"
       /\ outbox'[i].to = last'.conn
       /\ outbox'[i].payload.players = rooms'[c].players

\* the palette index the joiner got is k
JoinerPalette(c, k) ==
  LET player == rooms'[c].players[PlayerPos(rooms'[c], last'.conn)]
  IN player.color = k /\ player.avatar = k

\* C19 as claimed: the k-th player to join a room (from 0) gets palette
\* entry k mod 8, whatever joins and disconnects came before.
PaletteByJoinIndex ==
  [][\A c \in DOMAIN rooms :
       Joined(c) => /\ JoinOrderKept(c)
                    /\ JoinerPalette(c, Cardinality(rooms[c].everJoined) % 8)]_vars

\* C19 as amended: the joiner gets palette entry (players in the room at
\* the moment of the join) mod 8.
PaletteByPlayerCount ==
  [][\A c \in DOMAIN rooms :
       Joined(c) => /\ JoinOrderKept(c)
                    /\ JoinerPalette(c, Len(rooms[c].players) % 8)]_vars

\* after a disconnect a joiner got the palette entry another player of the
\* room already has
PaletteReusedWitness ==
  \E c \in DOMAIN rooms :
    /\ last.op = "JOIN_ROOM"
    /\ PlayerPos(rooms[c], last.conn) = Len(rooms[c].players)
    /\ Cardinality(rooms[c].everJoined) > Len(rooms[c].players)
    /\ \E i \in 1..(Len(rooms[c].players) - 1) :
         rooms[c].players[i].color = rooms[c].players[Len(rooms[c].players)].color

\* the connections the step sent a message of the type to
SentTo(type) == {outbox'[i].to : i \in {j \in 1..Len(outbox') : outbox'[j].type = type}}

\* C31: a JOIN_ROOM that adds the connection to a room sends PLAYER_JOINED
\* to the players the room had before the join, and to no one else, and
\* ROOM_JOINED, with the room's players and the game state, to the joiner
\* alone.
JoinTellsTheOthers ==
  [][\A c \in DOMAIN rooms :
       Joined(c)
         => /\ SentTo("PLAYER_JOINED") = PlayerSet(rooms[c])
            /\ SentTo("ROOM_JOINED") = {last'.conn}
            /\ \A i \in 1..Len(outbox') :
                 outbox'[i].type = "ROOM_JOINED"
                   => outbox'[i].payload.players = rooms'[c].players]_vars

\* C34: a room of the registry in WAITING has no guilty player and no timer
\* armed for it; a room in any other phase has exactly one phase timer
\* armed for it.
WaitingRoomIsIdle ==
  \A c \in DOMAIN rooms :
    LET room == rooms[c]
    IN IF room.phase = "WAITING"
       THEN room.guiltyPlayerId = 0 /\ ArmedFor(room) = {}
       ELSE Cardinality({t \in ArmedFor(room) : t.kind = "phase"}) = 1

\* the RESULTS timer has just brought the room back to WAITING after its
\* first round: no guilty player, nothing armed
BackToWaitingWitness ==
  \E c \in DOMAIN rooms :
    /\ last.op = "PHASE_TIMER"
    /\ rooms[c].phase = "WAITING"
    /\ rooms[c].roundNumber = 1
    /\ rooms[c].results.defined
    /\ rooms[c].results.guiltyPlayerId # 0
    /\ rooms[c].guiltyPlayerId = 0
    /\ ArmedFor(rooms[c]) = {}

\* C37: in every room whose phase is not WAITING, guiltyPlayerId is the id of
\* a player who is in the room's players map.
GuiltyStaysInRoom ==
  \A c \in DOMAIN rooms :
    rooms[c].phase # "WAITING" => rooms[c].guiltyPlayerId \in PlayerSet(rooms[c])

\* C36: a snapshot of a room in SETUP, ALIBI_CONSTRUCTION, INTERROGATION or
\* ACCUSATIONS carries no results, and the room has none in those phases.
NoResultsBeforeScoring ==
  /\ \A snap \in Snapshots :
       snap.state.phase \in {"SETUP", "ALIBI_CONSTRUCTION", "INTERROGATION", "ACCUSATIONS"}
         => ~snap.state.results.defined
  /\ \A c \in DOMAIN rooms :
       rooms[c].phase \in {"SETUP", "ALIBI_CONSTRUCTION", "INTERROGATION", "ACCUSATIONS"}
         => ~rooms[c].results.defined

\* the room the first round of which is running, in the phase given
InRound(c, phase) ==
  c \in DOMAIN rooms /\ rooms[c].roundNumber = 1 /\ rooms[c].phase = phase

\* C20: under fair firing of the armed timers, the first round of a room,
\* once in SETUP, reaches RESULTS (unless the room is deleted first).
RoundRunsToItsEnd ==
  \A c \in Codes :
    InRound(c, "SETUP") ~> (InRound(c, "RESULTS") \/ c \notin DOMAIN rooms)

\* the ids of the five scenarios the claim lists
FiveScenarios ==
  {"museum_heist", "corporate_espionage", "jewelry_theft", "vandalism",
   "restaurant_poisoning"}

\* C26: the crime of a room is one of the five scenarios, and wherever
\* START_GAME would start a round each of the five is the crime for some
\* draw of Math.random().
CrimeDrawnFromFive ==
  \A c \in DOMAIN rooms :
    /\ rooms[c].crime.id \in FiveScenarios \cup {"null"}
    /\ ~startGameRefused(rooms, c)
         => \A id \in FiveScenarios : \E crimeIdx \in 1..Len(getCrimes) :
              startGame(S0, clients, c, crimeIdx, 1).rooms[c].crime.id = id

Spec == Init /\ [][Next]_vars

\* every armed timer fires in the end
FairSpec == Spec /\ WF_vars(Fire)

\* ------------------------------------------------------------ a full room
\* The environment of SpecFull: up to FullConns connections, none of which
\* closes, so that a room fills to MAX_PLAYERS.
ArriveFull == (\A c \in DOMAIN clients : clients[c].roomCode # "null") /\ Connect(FullConns)

NextFull == ArriveFull \/ Create \/ Join \/ Start \/ Fire

\* C23: a room of the registry never has more than 8 players (all distinct), and every
\* step that takes a room out of WAITING, like every START_GAME that starts
\* a round, finds at least 4 players in it.
RoomSizeBounds ==
  [][\A c \in DOMAIN rooms' :
       /\ Len(rooms'[c].players) \in 0..8
       /\ Cardinality(PlayerSet(rooms'[c])) = Len(rooms'[c].players)
       /\ (SameRoom(c) /\ rooms[c].phase = "WAITING" /\ rooms'[c].phase # "WAITING")
            => (Len(rooms[c].players) >= 4 /\ Len(rooms'[c].players) >= 4)
       /\ (SameRoom(c) /\ rooms'[c].roundNumber # rooms[c].roundNumber)
            => (Len(rooms[c].players) >= 4 /\ Len(rooms'[c].players) >= 4)]_vars

\* START_GAME has just started the first round of a room of eight
RoomOfEightStartedWitness ==
  \E c \in DOMAIN rooms :
    /\ last.op = "START_GAME"
    /\ rooms[c].phase = "SETUP"
    /\ rooms[c].roundNumber = 1
    /\ Len(rooms[c].players) = 8
    /\ Len(outbox) = 8

SpecFull == Init /\ [][NextFull]_vars

\* ------------------------------------------------------------ the lobby
\* The environment of SpecLobby: a few connections, two room codes that
\* generateRoomCode may draw again while they are in use, and connections
\* that send JOIN_ROOM as often and for whatever code they like.
ArriveLobby == Connect(LobbyConns)
CreateAny ==
  \E ws \in DOMAIN clients, c \in LobbyCodes : nextOid < MaxRooms /\ CreateRoom(ws, c)
JoinAny == \E ws \in DOMAIN clients, c \in LobbyCodes, n \in Names : JoinRoom(ws, c, n)

NextLobby == ArriveLobby \/ CreateAny \/ JoinAny \/ Leave

\* C13: CREATE_ROOM registers the new room under a code no room of the
\* registry uses, so no room is replaced; the new room is in WAITING with no
\* players and roundNumber 0, and nothing else changes.
CreateRoomUsesFreeCode ==
  [][last'.op = "CREATE_ROOM"
       => LET c == last'.arg
          IN /\ c \notin DOMAIN rooms
             /\ DOMAIN rooms' = DOMAIN rooms \cup {c}
             /\ \A d \in DOMAIN rooms : rooms'[d] = rooms[d]
             /\ rooms'[c].phase = "WAITING"
             /\ rooms'[c].players = <<>>
             /\ rooms'[c].roundNumber = 0
             /\ clients' = clients
             /\ timers' = timers]_vars

\* C24: a connection is a player of at most one room, and of no room but
\* the one its roomCode names, whatever JOIN_ROOM messages it has sent.
InAtMostOneRoom ==
  \A ws \in DOMAIN clients : \A c \in DOMAIN rooms :
    PlayerPos(rooms[c], ws) # 0 => clients[ws].roomCode = c

SpecLobby == Init /\ [][NextLobby]_vars

\* ------------------------------------------------------- a running round
\* The states a round of four players passes through: CREATE_ROOM, four
\* JOIN_ROOM, START_GAME, then the round's timers one after the other.
RECURSIVE RunTimers(_, _, _)
RunTimers(s, cl, n) ==
  IF n = 0 THEN s
  ELSE LET t == CHOOSE t \in s.timers : \A u \in s.timers : t.delay <= u.delay
       IN RunTimers(fireTimer([s EXCEPT !.outbox = <<>>], cl, t), cl, n - 1)

LobbyPlayer(i) ==
  [id |-> i, name |-> "ann", color |-> (i - 1) % PALETTE_SIZE,
   avatar |-> (i - 1) % PALETTE_SIZE, score |-> 0, isGuilty |-> FALSE]

LobbyClients ==
  [i \in 1..MIN_PLAYERS |-> [playerId |-> i, roomCode |-> "AB12", playerName |-> "ann"]]

LobbyRooms ==
  "AB12" :> [NewRoom("AB12", 1, 1) EXCEPT
               !.players = [i \in 1..MIN_PLAYERS |-> LobbyPlayer(i)],
               !.everJoined = 1..MIN_PLAYERS]

\* the server state after START_GAME (guilty player drawn at guiltyIdx) and
\* the first `fired` timers of the round
AtTimer(guiltyIdx, fired) ==
  RunTimers(startGame([rooms |-> LobbyRooms, timers |-> {}, outbox |-> <<>>],
                      LobbyClients, "AB12", 1, guiltyIdx),
            LobbyClients, fired)

\* the round has reached INTERROGATION: the phase timer and both evidence
\* timers are armed
AtInterrogation == AtTimer(1, 2)

AtAccusations(guiltyIdx) == AtTimer(guiltyIdx, 5)

\* ------------------------------------------------------- the abandoned room
\* SpecStale starts in INTERROGATION.  The players leave, later connections
\* arrive, and generateRoomCode may draw the code again once it is free.
InitStale ==
  /\ rooms = AtInterrogation.rooms
  /\ timers = AtInterrogation.timers
  /\ outbox = AtInterrogation.outbox
  /\ clients = LobbyClients
  /\ nextId = MIN_PLAYERS
  /\ nextOid = 1
  /\ last = Event("PHASE_TIMER", 0, "AB12")

ArriveStale ==
  (\A c \in DOMAIN clients : clients[c].roomCode # "null") /\ Connect(StaleConns)

NextStale == ArriveStale \/ Create \/ Join \/ Fire \/ Leave

\* the timers that were armed before the step and are not after it
Disarmed == timers \ timers'

\* C12: a timer of a room that is no longer in the registry fires as a
\* no-op: no room of the registry changes and no message is sent, also when
\* a new room has been created under the same code.
StaleTimerIsNoOp ==
  [][(/\ last'.op \in {"PHASE_TIMER", "EVIDENCE_TIMER"}
      /\ \E t \in Disarmed : \A c \in DOMAIN rooms : rooms[c].oid # t.oid)
       => (rooms' = rooms /\ outbox' = <<>>)]_vars

SpecStale == InitStale /\ [][NextStale]_vars

\* ------------------------------------------------------- the interrogation
\* SpecAsk starts in INTERROGATION.  Some players ask the player after them,
\* in any phase the timers lead to.
InitAsk ==
  /\ rooms = AtInterrogation.rooms
  /\ timers = AtInterrogation.timers
  /\ outbox = AtInterrogation.outbox
  /\ clients = LobbyClients
  /\ nextId = MIN_PLAYERS
  /\ nextOid = 1
  /\ last = Event("PHASE_TIMER", 0, "AB12")

Ask ==
  \E ws \in DOMAIN clients :
    ws <= MaxAskers /\ AskQuestion(ws, (ws % MIN_PLAYERS) + 1, "why")

NextAsk == Ask \/ Fire

\* the questions of the room's list that the player asked
FromCount(room, p) ==
  Cardinality({i \in 1..Len(room.questions) : room.questions[i].from = p})

\* C14: no player is the `from` of more than 3 questions of the round's
\* list, and ASK_QUESTION from a player who already has 3, or outside
\* INTERROGATION, appends nothing and sends nothing.
QuestionLimit ==
  [][/\ \A c \in DOMAIN rooms' : \A p \in DOMAIN clients :
          FromCount(rooms'[c], p) <= 3
     /\ (/\ last'.op = "ASK_QUESTION"
         /\ HasRoom(last'.conn)
         /\ \/ RoomOf(last'.conn).phase # "INTERROGATION"
            \/ FromCount(RoomOf(last'.conn), last'.conn) >= 3)
          => (rooms' = rooms /\ outbox' = <<>>)]_vars

\* a fourth question was just sent during the interrogation and dropped
QuestionLimitWitness ==
  /\ last.op = "ASK_QUESTION"
  /\ HasRoom(last.conn)
  /\ RoomOf(last.conn).phase = "INTERROGATION"
  /\ FromCount(RoomOf(last.conn), last.conn) = 3
  /\ outbox = <<>>

SpecAsk == InitAsk /\ [][NextAsk]_vars

\* SpecAnswer starts in INTERROGATION.  The host asks the player after them;
\* that player, and the one after, answer any question of the list.
AskHost ==
  \E ws \in DOMAIN clients :
    /\ HasRoom(ws)
    /\ ws = RoomOf(ws).host
    /\ AskQuestion(ws, (ws % MIN_PLAYERS) + 1, "why")

Answer ==
  \E ws \in DOMAIN clients, a \in Answers :
    /\ HasRoom(ws)
    /\ \E i \in 1..Len(RoomOf(ws).questions) :
         LET q == RoomOf(ws).questions[i]
         IN /\ ws \in {q.to, (q.to % MIN_PLAYERS) + 1}
            /\ AnswerQuestion(ws, q.id, a)

NextAnswer == AskHost \/ Answer \/ Fire

\* C15: ANSWER_QUESTION for a question that already has an answer, whatever
\* its text, changes nothing and sends nothing.
AnswerSetOnce ==
  [][(/\ last'.op = "ANSWER_QUESTION"
      /\ HasRoom(last'.conn)
      /\ \E i \in 1..Len(RoomOf(last'.conn).questions) :
           /\ RoomOf(last'.conn).questions[i].id = last'.arg[1]
           /\ ~RoomOf(last'.conn).questions[i].answer.isNull)
       => (rooms' = rooms /\ outbox' = <<>>)]_vars

SpecAnswer == InitAsk /\ [][NextAnswer]_vars

\* SpecReply: as SpecAnswer, and the player asked also answers a question
\* that is not in the list (the id the next question of the round would get)
AnswerUnknown ==
  \E ws \in DOMAIN clients :
    /\ HasRoom(ws)
    /\ ws = (RoomOf(ws).host % MIN_PLAYERS) + 1
    /\ AnswerQuestion(ws, <<RoomOf(ws).roundNumber, Len(RoomOf(ws).questions) + 1>>,
                      "at home")

NextReply == AskHost \/ Answer \/ AnswerUnknown \/ Fire

\* C30: ANSWER_QUESTION for an id that no question of the room's list has,
\* or from a player other than the question's `to`, changes no room and
\* sends nothing; from the question's `to`, for a question never answered,
\* it sets the answer to the text sent, changes nothing else (the phase
\* included, whatever it is) and sends every player of the room one
\* QUESTION_ANSWERED with the id and the text.
AnswerOnlyByAddressee ==
  [][(last'.op = "ANSWER_QUESTION" /\ HasRoom(last'.conn))
       => LET c == clients[last'.conn].roomCode
              found == {i \in 1..Len(rooms[c].questions) :
                          rooms[c].questions[i].id = last'.arg[1]}
          IN /\ found = {} => (rooms' = rooms /\ outbox' = <<>>)
             /\ \A i \in found :
                  /\ rooms[c].questions[i].to # last'.conn
                       => (rooms' = rooms /\ outbox' = <<>>)
                  /\ (rooms[c].questions[i].to = last'.conn
                        /\ rooms[c].questions[i].answer.isNull)
                       => /\ rooms' = [rooms EXCEPT ![c].questions[i].answer =
                                         [isNull |-> FALSE, text |-> last'.arg[2]]]
                          /\ Len(outbox') = Len(rooms[c].players)
                          /\ \A k \in 1..Len(outbox') :
                               /\ outbox'[k].to = rooms[c].players[k].id
                               /\ outbox'[k].type = "QUESTION_ANSWERED"
                               /\ outbox'[k].payload =
                                    [questionId |-> last'.arg[1],
                                     answer |-> last'.arg[2]]]_vars

\* the player asked has just answered during the accusations and the four
\* players were told
AnsweredLateWitness ==
  /\ last.op = "ANSWER_QUESTION"
  /\ HasRoom(last.conn)
  /\ RoomOf(last.conn).phase = "ACCUSATIONS"
  /\ Len(outbox) = 4
  /\ outbox[1].type = "QUESTION_ANSWERED"
  /\ \E i \in 1..Len(RoomOf(last.conn).questions) :
       LET q == RoomOf(last.conn).questions[i]
       IN /\ q.id = last.arg[1]
          /\ q.to = last.conn
          /\ q.answer = [isNull |-> FALSE, text |-> "at home"]

SpecReply == InitAsk /\ [][NextReply]_vars

\* ------------------------------------------------------------ the vote
\* SpecScore starts where the round has reached ACCUSATIONS, with the guilty
\* player drawn among the four.

InitScore ==
  \E guiltyIdx \in 1..MIN_PLAYERS :
    /\ rooms = AtAccusations(guiltyIdx).rooms
    /\ timers = AtAccusations(guiltyIdx).timers
    /\ outbox = AtAccusations(guiltyIdx).outbox
    /\ clients = LobbyClients
    /\ nextId = MIN_PLAYERS
    /\ nextOid = 1
    /\ last = Event("PHASE_TIMER", 0, "AB12")

\* votes are sent while the accusations run; a vote names the guilty player
\* or the player after them
Vote ==
  \E ws \in DOMAIN clients, confidence \in 1..MaxConfidence, innocent \in BOOLEAN :
    /\ ws <= MaxVoters
    /\ HasRoom(ws)
    /\ RoomOf(ws).phase = "ACCUSATIONS"
    /\ LET g == RoomOf(ws).guiltyPlayerId
       IN SubmitVote(ws, IF innocent THEN (g % MIN_PLAYERS) + 1 ELSE g, confidence)

NextScore == Vote \/ Fire \/ Leave

\* the score of the player in the room, -1 when not a player of it
ScoreIn(room, p) ==
  IF PlayerPos(room, p) = 0 THEN -1 ELSE room.players[PlayerPos(room, p)].score

\* the score of the player in the room after the step
ScoreAfter(c, p) == rooms'[c].players[PlayerPos(rooms'[c], p)].score

\* C32: the results stored by the step from ACCUSATIONS to RESULTS hold the
\* round's guilty player, the recorded votes by voter, and for every player
\* of the room the score the player has after the step.
ResultsListEveryPlayer ==
  [][\A c \in DOMAIN rooms :
       (SameRoom(c) /\ rooms[c].phase = "ACCUSATIONS" /\ rooms'[c].phase = "RESULTS")
         => LET results == rooms'[c].results
            IN /\ results.defined
               /\ results.guiltyPlayerId = rooms[c].guiltyPlayerId
               /\ DOMAIN results.votes = DOMAIN rooms[c].votes
               /\ \A v \in DOMAIN rooms[c].votes : results.votes[v] = rooms[c].votes[v]
               /\ DOMAIN results.scores = PlayerSet(rooms'[c])
               /\ \A p \in PlayerSet(rooms'[c]) : results.scores[p] = ScoreAfter(c, p)]_vars

\* the players of the room, other than p, whose recorded vote does not name
\* the guilty player
OthersFooled(room, p) ==
  {v \in (DOMAIN room.votes \cap PlayerSet(room)) \ {p} :
     room.votes[v].suspectId # room.guiltyPlayerId}

SpecScore == InitScore /\ [][NextScore]_vars

\* SpecRejoin: as SpecScore, with members of the room sending JOIN_ROOM for
\* it again instead of leaving.
Rejoin ==
  \E ws \in DOMAIN clients, n \in Names :
    ws <= MaxVoters /\ HasRoom(ws) /\ JoinRoom(ws, clients[ws].roomCode, n)

NextRejoin == Vote \/ Fire \/ Rejoin

\* C16: the score of a player whose connection is open never decreases.
ScoreNeverDecreases ==
  [][\A c \in DOMAIN rooms : \A p \in PlayerSet(rooms[c]) :
       (SameRoom(c) /\ p \in DOMAIN clients')
         => ScoreIn(rooms'[c], p) >= ScoreIn(rooms[c], p)]_vars

SpecRejoin == InitScore /\ [][NextRejoin]_vars

\* ------------------------------------------------------------ the alibis
\* SpecAlibi starts where START_GAME has just put the room in SETUP.  Some
\* players send alibis in any phase the timers lead to.
InitAlibi ==
  /\ rooms = AtTimer(1, 0).rooms
  /\ timers = AtTimer(1, 0).timers
  /\ outbox = AtTimer(1, 0).outbox
  /\ clients = LobbyClients
  /\ nextId = MIN_PLAYERS
  /\ nextOid = 1
  /\ last = Event("START_GAME", 1, "AB12")

Alibi ==
  \E ws \in DOMAIN clients, a \in Alibis : ws <= MaxWriters /\ SubmitAlibi(ws, a)

NextAlibi == Alibi \/ Fire

\* C21: SUBMIT_ALIBI outside ALIBI_CONSTRUCTION changes no room and sends
\* nothing; in ALIBI_CONSTRUCTION it sets the sender's alibi to the text
\* sent, replacing an earlier one, leaves the other alibis and the rest of
\* the room alone, and sends every player of the room one ALIBI_SUBMITTED
\* whose payload is the sender's id and nothing else.
AlibiOnlyInConstruction ==
  [][(last'.op = "SUBMIT_ALIBI" /\ HasRoom(last'.conn))
       => LET c == clients[last'.conn].roomCode
          IN IF rooms[c].phase # "ALIBI_CONSTRUCTION"
             THEN rooms' = rooms /\ outbox' = <<>>
             ELSE /\ rooms' = [rooms EXCEPT ![c].alibis =
                                 (last'.conn :> last'.arg) @@ rooms[c].alibis]
                  /\ DOMAIN rooms'[c].alibis = DOMAIN rooms[c].alibis \cup {last'.conn}
                  /\ rooms'[c].alibis[last'.conn] = last'.arg
                  /\ \A p \in DOMAIN rooms[c].alibis \ {last'.conn} :
                       rooms'[c].alibis[p] = rooms[c].alibis[p]
                  /\ Len(outbox') = Len(rooms[c].players)
                  /\ \A i \in 1..Len(outbox') :
                       /\ outbox'[i].to = rooms[c].players[i].id
                       /\ outbox'[i].type = "ALIBI_SUBMITTED"
                       /\ outbox'[i].payload = [playerId |-> last'.conn]]_vars

\* an alibi was just accepted during ALIBI_CONSTRUCTION, another player's
\* alibi stayed, and the four players were told
AlibiAcceptedWitness ==
  /\ last.op = "SUBMIT_ALIBI"
  /\ HasRoom(last.conn)
  /\ RoomOf(last.conn).phase = "ALIBI_CONSTRUCTION"
  /\ RoomOf(last.conn).alibis[last.conn] = "at work"
  /\ last.arg = "at work"
  /\ Len(outbox) = 4
  /\ \E w \in DOMAIN RoomOf(last.conn).alibis :
       w # last.conn /\ RoomOf(last.conn).alibis[w] = "at home"

SpecAlibi == InitAlibi /\ [][NextAlibi]_vars

\* ------------------------------------------------------------ the wagers
\* SpecVote starts at the end of INTERROGATION (both evidence items are
\* out).  Some players vote, with any wager, in any phase the timers lead to.
InitVote ==
  /\ rooms = AtTimer(1, 4).rooms
  /\ timers = AtTimer(1, 4).timers
  /\ outbox = AtTimer(1, 4).outbox
  /\ clients = LobbyClients
  /\ nextId = MIN_PLAYERS
  /\ nextOid = 1
  /\ last = Event("EVIDENCE_TIMER", 0, "AB12")

VoteAny ==
  \E ws \in DOMAIN clients, confidence \in Confidences :
    ws <= MaxVoters /\ SubmitVote(ws, (ws % MIN_PLAYERS) + 1, confidence)

NextVote == VoteAny \/ Fire

\* C22: SUBMIT_VOTE outside ACCUSATIONS changes no room and sends nothing;
\* in ACCUSATIONS the sender's vote becomes the suspect sent with the wager
\* brought into 1..3 (below 1 gives 1, above 3 gives 3), replacing an earlier
\* vote of theirs, the other votes stay, and every player of the room gets
\* one VOTE_SUBMITTED whose payload is the voter's id and nothing else.
VoteOnlyInAccusations ==
  [][(last'.op = "SUBMIT_VOTE" /\ HasRoom(last'.conn))
       => LET c == clients[last'.conn].roomCode
              sent == last'.arg[2]
              kept == IF sent < 1 THEN 1 ELSE IF sent > 3 THEN 3 ELSE sent
          IN IF rooms[c].phase # "ACCUSATIONS"
             THEN rooms' = rooms /\ outbox' = <<>>
             ELSE /\ rooms' = [rooms EXCEPT ![c].votes =
                                 (last'.conn :> [suspectId |-> last'.arg[1],
                                                 confidence |-> kept]) @@ rooms[c].votes]
                  /\ rooms'[c].votes[last'.conn].confidence \in {1, 2, 3}
                  /\ DOMAIN rooms'[c].votes = DOMAIN rooms[c].votes \cup {last'.conn}
                  /\ \A v \in DOMAIN rooms[c].votes \ {last'.conn} :
                       rooms'[c].votes[v] = rooms[c].votes[v]
                  /\ Len(outbox') = Len(rooms[c].players)
                  /\ \A i \in 1..Len(outbox') :
                       /\ outbox'[i].to = rooms[c].players[i].id
                       /\ outbox'[i].type = "VOTE_SUBMITTED"
                       /\ outbox'[i].payload = [playerId |-> last'.conn]]_vars

\* a wager of 9 was just recorded as 3 while another player's vote stayed
VoteClampedWitness ==
  /\ last.op = "SUBMIT_VOTE"
  /\ last.arg[2] = 9
  /\ HasRoom(last.conn)
  /\ RoomOf(last.conn).phase = "ACCUSATIONS"
  /\ RoomOf(last.conn).votes[last.conn].confidence = 3
  /\ Cardinality(DOMAIN RoomOf(last.conn).votes) = 2
  /\ Len(outbox) = 4

SpecVote == InitVote /\ [][NextVote]_vars

\* ------------------------------------------------------- the raw messages
\* SpecMessage starts in SETUP.  Some players send data that does not parse,
\* messages of a type the server does not know, and SUBMIT_ALIBI and
\* JOIN_ROOM messages with the payload missing, empty or complete.
Message(parses, type, hasPayload, payload) ==
  [parses |-> parses, type |-> type, hasPayload |-> hasPayload, payload |-> payload]

Messages ==
  {Message(FALSE, "none", FALSE, EmptyPayload),
   Message(TRUE, "PING", TRUE, EmptyPayload),
   Message(TRUE, "SUBMIT_ALIBI", FALSE, EmptyPayload),
   Message(TRUE, "SUBMIT_ALIBI", TRUE, EmptyPayload),
   Message(TRUE, "SUBMIT_ALIBI", TRUE, [EmptyPayload EXCEPT !.alibi = "at home"]),
   Message(TRUE, "JOIN_ROOM", FALSE, EmptyPayload),
   Message(TRUE, "JOIN_ROOM", TRUE, EmptyPayload)}

Receive ==
  \E ws \in DOMAIN clients, m \in Messages :
    ws <= MaxWriters /\ HandleMessage(ws, m, "AB12", 1, 1)

NextMessage == Receive \/ Fire

\* the last step handled a message that does not parse, has a type the
\* server does not know, or lacks what its handler reads
Malformed(e) ==
  \/ e.op = "MESSAGE"
  \/ e.op \in {"SUBMIT_ALIBI", "JOIN_ROOM"} /\ e.arg = Undefined

\* C25: a message that does not parse, one whose payload lacks what its
\* handler reads, and one of unknown type change no room, no connection
\* record and no timer, and nothing is sent to anyone.
MalformedDropped ==
  [][Malformed(last')
       => (/\ rooms' = rooms
           /\ clients' = clients
           /\ timers' = timers
           /\ outbox' = <<>>)]_vars

SpecMessage == InitAlibi /\ [][NextMessage]_vars

\* ------------------------------------------------------- round after round
\* SpecRestart starts in SETUP.  The host writes an alibi, asks questions and
\* votes for the player after them; anyone sends START_GAME at any moment.
WriteHost ==
  \E ws \in DOMAIN clients :
    HasRoom(ws) /\ ws = RoomOf(ws).host /\ SubmitAlibi(ws, "at home")

VoteHost ==
  \E ws \in DOMAIN clients :
    HasRoom(ws) /\ ws = RoomOf(ws).host /\ SubmitVote(ws, (ws % MIN_PLAYERS) + 1, 1)

NextRestart == WriteHost \/ AskHost \/ VoteHost \/ Fire \/ Start

\* C27: a START_GAME that starts a round adds 1 to roundNumber, leaves no
\* alibi, question, vote or revealed evidence, sets the phase to SETUP and
\* keeps the players as they were (ids, order, names, colours, avatars and
\* scores); and nothing but START_GAME changes roundNumber.
StartGameResetsRound ==
  [][/\ (last'.op = "START_GAME" /\ HasRoom(last'.conn)
           /\ Len(RoomOf(last'.conn).players) >= 4)
          => LET c == clients[last'.conn].roomCode
             IN /\ rooms'[c].roundNumber = rooms[c].roundNumber + 1
                /\ DOMAIN rooms'[c].alibis = {}
                /\ rooms'[c].questions = <<>>
                /\ DOMAIN rooms'[c].votes = {}
                /\ rooms'[c].currentEvidence = <<>>
                /\ rooms'[c].phase = "SETUP"
                /\ rooms'[c].players = rooms[c].players
     /\ \A c \in DOMAIN rooms :
          (SameRoom(c) /\ rooms'[c].roundNumber # rooms[c].roundNumber)
            => last'.op = "START_GAME"]_vars

\* round 2 has just started after a round in which the host voted and the
\* guilty player scored: the vote is kept in the results only, the score
\* stays, and the round's lists are empty
RoundResetWitness ==
  \E c \in DOMAIN rooms :
    /\ last.op = "START_GAME"
    /\ rooms[c].roundNumber = 2
    /\ rooms[c].phase = "SETUP"
    /\ rooms[c].results.defined
    /\ DOMAIN rooms[c].results.votes # {}
    /\ DOMAIN rooms[c].votes = {}
    /\ DOMAIN rooms[c].alibis = {}
    /\ rooms[c].questions = <<>>
    /\ rooms[c].currentEvidence = <<>>
    /\ \E i \in 1..Len(rooms[c].players) : rooms[c].players[i].score = 150

SpecRestart == InitAlibi /\ [][NextRestart]_vars

\* ------------------------------------------------------- the evidence
\* SpecEvidence starts where a round about the second crime of the catalog
\* has reached INTERROGATION.  The timers run, players leave, and START_GAME
\* is sent at any moment.
AtSecondCrime ==
  RunTimers(startGame([rooms |-> LobbyRooms, timers |-> {}, outbox |-> <<>>],
                      LobbyClients, "AB12", 2, 1),
            LobbyClients, 2)

InitEvidence ==
  /\ rooms = AtSecondCrime.rooms
  /\ timers = AtSecondCrime.timers
  /\ outbox = AtSecondCrime.outbox
  /\ clients = LobbyClients
  /\ nextId = MIN_PLAYERS
  /\ nextOid = 1
  /\ last = Event("PHASE_TIMER", 0, "AB12")

NextEvidence == Fire \/ Start \/ Leave

\* C28: the revealed evidence of a room changes only by START_GAME emptying
\* it or by an evidence timer appending one item while the phase is, and
\* stays, INTERROGATION; the item belongs to the crime of the round, is not
\* yet in the list and has a later revealTime than every item of the list.
EvidenceGrowsInInterrogation ==
  [][\A c \in DOMAIN rooms :
       (SameRoom(c) /\ rooms'[c].currentEvidence # rooms[c].currentEvidence)
         => \/ /\ last'.op = "START_GAME"
               /\ rooms'[c].currentEvidence = <<>>
            \/ /\ last'.op = "EVIDENCE_TIMER"
               /\ rooms[c].phase = "INTERROGATION"
               /\ rooms'[c].phase = "INTERROGATION"
               /\ rooms'[c].roundNumber = rooms[c].roundNumber
               /\ rooms'[c].crime = rooms[c].crime
               /\ \E e \in Range(rooms[c].crime.evidence) :
                    /\ rooms'[c].currentEvidence = Append(rooms[c].currentEvidence, e)
                    /\ e \notin Range(rooms[c].currentEvidence)
                    /\ \A f \in Range(rooms[c].currentEvidence) :
                         f.revealTime < e.revealTime]_vars

\* the second item of the second round's crime was just revealed, in a round
\* about another crime than the first
SecondRoundEvidenceWitness ==
  \E c \in DOMAIN rooms :
    /\ last.op = "EVIDENCE_TIMER"
    /\ rooms[c].roundNumber = 2
    /\ rooms[c].phase = "INTERROGATION"
    /\ rooms[c].crime.id = "museum_heist"
    /\ rooms[c].currentEvidence = rooms[c].crime.evidence
    /\ Len(rooms[c].currentEvidence) = 2

\* C29: every reveal of a crime is due before the interrogation's phase
\* timer, and a step from INTERROGATION to ACCUSATIONS is made by the phase
\* timer with every evidence item of the round's crime revealed, in the
\* crime's order.
AllEvidenceBeforeAccusations ==
  [][\A c \in DOMAIN rooms :
       (SameRoom(c) /\ rooms[c].phase = "INTERROGATION"
          /\ rooms'[c].phase = "ACCUSATIONS")
         => /\ last'.op = "PHASE_TIMER"
            /\ rooms[c].currentEvidence = rooms[c].crime.evidence
            /\ rooms'[c].currentEvidence = rooms'[c].crime.evidence
            /\ rooms'[c].crime = rooms[c].crime
            /\ \A e \in Range(rooms[c].crime.evidence) :
                 e.revealTime * 1000 < PHASE_DURATIONS["INTERROGATION"]]_vars

\* the phase timer has just ended the interrogation about the data breach
\* with the coffee cup and the parked car revealed
AccusationsWithEvidenceWitness ==
  \E c \in DOMAIN rooms :
    /\ last.op = "PHASE_TIMER"
    /\ rooms[c].phase = "ACCUSATIONS"
    /\ rooms[c].crime.id = "corporate_espionage"
    /\ Len(rooms[c].currentEvidence) = 2
    /\ rooms[c].currentEvidence[1].id = "coffee"
    /\ rooms[c].currentEvidence[2].id = "parking"

SpecEvidence == InitEvidence /\ [][NextEvidence]_vars

\* ------------------------------------------------------- the GameManager
\* GameManager (gameManager.ts) keeps the state of one room on its own.  Its
\* state is a record; a player's vote and confidence are 0 while undefined.
\* g is what its methods thread through their calls: [state, timers].
CRIMES ==
  << [id |-> "museum_heist",
      evidence |-> << [id |-> "tattoo", revealTime |-> 10],
                      [id |-> "shoes", revealTime |-> 20] >>],
     [id |-> "corporate_espionage",
      evidence |-> << [id |-> "coffee", revealTime |-> 10],
                      [id |-> "parking", revealTime |-> 20] >>],
     [id |-> "jewelry_theft",
      evidence |-> << [id |-> "gloves", revealTime |-> 10],
                      [id |-> "witness", revealTime |-> 20] >>],
     [id |-> "vandalism",
      evidence |-> << [id |-> "paint", revealTime |-> 10],
                      [id |-> "camera", revealTime |-> 20] >>],
     [id |-> "restaurant_poisoning",
      evidence |-> << [id |-> "kitchen", revealTime |-> 10],
                      [id |-> "bottle", revealTime |-> 20] >>] >>

\* the state the constructor builds
GameManager(roomCode) ==
  [roomCode |-> roomCode, phase |-> "WAITING", players |-> <<>>,
   crime |-> [id |-> "null", evidence |-> <<>>], guiltyPlayerId |-> 0,
   currentEvidence |-> <<>>, questions |-> <<>>, roundNumber |-> 0]

\* phaseDurations of changePhase, 0 for null
phaseDurations ==
  [WAITING |-> 0, SETUP |-> 5000, ALIBI_CONSTRUCTION |-> 30000,
   INTERROGATION |-> 30000, EVIDENCE_DROP |-> 0, ACCUSATIONS |-> 20000,
   RESULTS |-> 10000]

phaseOrder ==
  <<"WAITING", "SETUP", "ALIBI_CONSTRUCTION", "INTERROGATION", "ACCUSATIONS", "RESULTS">>

GM_addPlayer(state, id, name) ==
  LET idx == Len(state.players) % PALETTE_SIZE
      player == [id |-> id, name |-> name, color |-> idx, avatar |-> idx,
                 isGuilty |-> FALSE, alibi |-> "", score |-> 0,
                 vote |-> 0, confidence |-> 0, questions |-> <<>>]
      pos == PlayerPos(state, id)
  IN [state EXCEPT !.players = IF pos = 0 THEN Append(@, player)
                                ELSE [@ EXCEPT ![pos] = player]]

GM_canStartGame(state) == Len(state.players) >= MIN_PLAYERS /\ state.phase = "WAITING"

GM_changePhase(g, newPhase) ==
  LET state == [g.state EXCEPT !.phase = newPhase]
      kept == {t \in g.timers : t.kind # "phase"}
      duration == phaseDurations[newPhase]
      pt == [kind |-> "phase", delay |-> duration,
             evidence |-> [id |-> "none", revealTime |-> 0]]
      evs == IF newPhase = "INTERROGATION" /\ state.crime.id # "null"
             THEN state.crime.evidence ELSE <<>>
      et == {[kind |-> "evidence", delay |-> evs[i].revealTime * 1000,
              evidence |-> evs[i]] : i \in 1..Len(evs)}
  IN IF duration # 0
     THEN [state |-> state, timers |-> kept \cup {pt} \cup et]
     ELSE [state |-> state, timers |-> kept]

\* "Mark the guilty player": guiltyPlayer.isGuilty = true; no mark is cleared
GM_markGuilty(players, guiltyPlayerId) ==
  [i \in 1..Len(players) |->
     [players[i] EXCEPT !.isGuilty = @ \/ players[i].id = guiltyPlayerId]]

\* startGame() with the two Math.random() draws as inputs
GM_startGame(g, crimeIdx, guiltyIdx) ==
  IF ~GM_canStartGame(g.state) THEN g
  ELSE LET guiltyPlayerId == PlayerIds(g.state)[guiltyIdx]
           marked == GM_markGuilty(g.state.players, guiltyPlayerId)
           players1 == [i \in 1..Len(marked) |->
                          [marked[i] EXCEPT !.alibi = "", !.vote = 0,
                                            !.confidence = 0, !.questions = <<>>]]
           state == [g.state EXCEPT !.roundNumber = @ + 1,
                                    !.crime = CRIMES[crimeIdx],
                                    !.guiltyPlayerId = guiltyPlayerId,
                                    !.players = players1,
                                    !.questions = <<>>,
                                    !.currentEvidence = <<>>]
       IN GM_changePhase([g EXCEPT !.state = state], "SETUP")

GM_advancePhase(g) ==
  LET currentIndex == IndexOf(phaseOrder, g.state.phase)
  IN IF currentIndex < Len(phaseOrder) - 1
     THEN GM_changePhase(g, phaseOrder[currentIndex + 2])
     ELSE GM_changePhase(g, "WAITING")

\* a setTimeout callback of the manager runs
GM_fireTimer(g, t) ==
  LET g0 == [g EXCEPT !.timers = @ \ {t}]
  IN IF t.kind = "phase" THEN GM_advancePhase(g0)
     ELSE IF g0.state.phase = "INTERROGATION"
          THEN [g0 EXCEPT !.state.currentEvidence = Append(@, t.evidence)]
          ELSE g0

\* submitVote(playerId, suspectId, confidence): the vote is kept on the player
GM_submitVote(state, playerId, suspectId, confidence) ==
  LET pos == PlayerPos(state, playerId)
  IN IF pos # 0 /\ state.phase = "ACCUSATIONS"
     THEN [state EXCEPT !.players[pos].vote = suspectId,
                        !.players[pos].confidence = Min(3, Max(1, confidence))]
     ELSE state

\* calculateResults(): every player but the guilty one either earns
\* 100 * (confidence || 1) for a vote naming the guilty player or counts as
\* fooled; the guilty player earns 150 for each player fooled
GM_calculateResults(state) ==
  IF state.guiltyPlayerId = 0 THEN state
  ELSE LET guilty == state.guiltyPlayerId
           players == state.players
           fooledCount ==
             Cardinality({i \in 1..Len(players) :
                            players[i].id # guilty /\ players[i].vote # guilty})
       IN [state EXCEPT !.players =
             [i \in 1..Len(players) |->
                IF players[i].id = guilty
                THEN [players[i] EXCEPT !.score = @ + fooledCount * FOOLED_POINTS]
                ELSE IF players[i].vote = guilty
                THEN [players[i] EXCEPT !.score =
                        @ + CORRECT_POINTS * (IF players[i].confidence = 0 THEN 1
                                              ELSE players[i].confidence)]
                ELSE players[i]]]

\* SpecManager: one GameManager, kept in `rooms` under its roomCode.  Players
\* are added while the room waits, startGame is called at any moment and the
\* manager's timers run.
ManagerInit ==
  /\ rooms = ("AB12" :> GameManager("AB12"))
  /\ clients = <<>>
  /\ nextId = 0
  /\ nextOid = 0
  /\ timers = {}
  /\ outbox = <<>>
  /\ last = Event("INIT", 0, "null")

ManagerCommit(c, g) ==
  /\ rooms' = [rooms EXCEPT ![c] = g.state]
  /\ timers' = g.timers
  /\ UNCHANGED <<clients, nextOid, outbox>>

ManagerAdd ==
  \E c \in DOMAIN rooms, n \in Names :
    /\ nextId < MaxConns
    /\ rooms[c].phase = "WAITING"
    /\ nextId' = nextId + 1
    /\ ManagerCommit(c, [state |-> GM_addPlayer(rooms[c], nextId + 1, n),
                         timers |-> timers])
    /\ last' = Event("addPlayer", nextId + 1, c)

ManagerStart ==
  \E c \in DOMAIN rooms, crimeIdx \in 1..Min(CrimeDraws, Len(CRIMES)),
     guiltyIdx \in 1..MAX_PLAYERS :
    /\ rooms[c].roundNumber < MaxRounds
    /\ guiltyIdx <= Max(1, Len(rooms[c].players))
    /\ GM_canStartGame(rooms[c]) \/ (crimeIdx = 1 /\ guiltyIdx = 1)
    /\ ManagerCommit(c, GM_startGame([state |-> rooms[c], timers |-> timers],
                                     crimeIdx, guiltyIdx))
    /\ last' = Event("startGame", 0, c)
    /\ UNCHANGED nextId

ManagerFire ==
  \E c \in DOMAIN rooms, t \in timers :
    /\ \A u \in timers : t.delay <= u.delay
    /\ ManagerCommit(c, GM_fireTimer([state |-> rooms[c], timers |-> timers], t))
    /\ last' = Event(IF t.kind = "phase" THEN "PHASE_TIMER" ELSE "EVIDENCE_TIMER", 0, c)
    /\ UNCHANGED nextId

NextManager == ManagerAdd \/ ManagerStart \/ ManagerFire

\* C35: in the GameManager a player is marked isGuilty exactly when the
\* player's id is the current guiltyPlayerId, so at most one player is
\* marked.
IsGuiltyIsCurrentRound ==
  \A c \in DOMAIN rooms : \A i \in 1..Len(rooms[c].players) :
    rooms[c].players[i].isGuilty <=> rooms[c].players[i].id = rooms[c].guiltyPlayerId

SpecManager == ManagerInit /\ [][NextManager]_vars

\* --------------------------------------------- the two scoring functions
\* the manager after the votes of the set, as the room recorded them, were
\* sent to its submitVote
RECURSIVE GM_castVotes(_, _, _)
GM_castVotes(state, votes, voters) ==
  IF voters = {} THEN state
  ELSE LET v == CHOOSE x \in voters : TRUE
       IN GM_castVotes(GM_submitVote(state, v, votes[v].suspectId, votes[v].confidence),
                       votes, voters \ {v})

\* a GameManager holding the players, scores, guilty player and votes of the
\* server's room
ManagerOf(c, room) ==
  LET joined == [i \in 1..Len(room.players) |->
                   [GM_addPlayer(GameManager(c), room.players[i].id,
                                 room.players[i].name).players[1]
                      EXCEPT !.score = room.players[i].score]]
      state == [GameManager(c) EXCEPT !.phase = room.phase,
                                      !.guiltyPlayerId = room.guiltyPlayerId,
                                      !.players = joined]
  IN GM_castVotes(state, room.votes, DOMAIN room.votes)

\* C38: on the same players, guilty player and votes, calculateResults of the
\* GameManager and calculateResults of the server add the same number of
\* points to each player.
ScoringsAgree ==
  [][\A c \in DOMAIN rooms :
       (SameRoom(c) /\ rooms[c].phase = "ACCUSATIONS" /\ rooms'[c].phase = "RESULTS")
         => LET scored == GM_calculateResults(ManagerOf(c, rooms[c]))
            IN \A p \in PlayerSet(rooms[c]) :
                 ScoreIn(rooms'[c], p) = ScoreIn(scored, p)]_vars

\* ------------------------------------------------ two runs, side by side
\* SpecTwin runs one round twice on the same inputs: the same four players,
\* the same START_GAME, the same timers, disconnects and alibis.  The runs
\* differ in the player startGame draws as guilty.  The first run is room
\* AB12; the second is kept as the room TwinCode, whose players have the
\* same ids.  outbox holds what the step delivered in the first run and
\* last.arg what it delivered in the second.
TwinCode == "AB12*"

\* submitAlibi(clientData, alibi) on the server state s
submitAlibi(s, cl, roomCode, playerId, alibi) ==
  IF alibiRefused(s.rooms, roomCode) THEN s
  ELSE LET rooms1 == [s.rooms EXCEPT ![roomCode].alibis = (playerId :> alibi) @@ @]
       IN [s EXCEPT !.rooms = rooms1,
                    !.outbox = @ \o broadcastToRoom(rooms1, cl, roomCode,
                                      "ALIBI_SUBMITTED", [playerId |-> playerId])]

\* handleDisconnect(ws) on the server state s; cl is the client map without ws
handleDisconnect(s, cl, roomCode, playerId) ==
  IF roomCode \notin DOMAIN s.rooms THEN s
  ELSE LET room == removePlayer(s.rooms[roomCode], playerId)
           rooms1 == [s.rooms EXCEPT ![roomCode] = room]
       IN [s EXCEPT !.rooms = IF Len(room.players) = 0
                              THEN [c \in DOMAIN s.rooms \ {roomCode} |-> s.rooms[c]]
                              ELSE rooms1,
                    !.outbox = @ \o broadcastToRoom(rooms1, cl, roomCode, "PLAYER_LEFT",
                                      [playerId |-> playerId,
                                       playerCount |-> Len(room.players)])]

InitTwin ==
  /\ rooms = LobbyRooms
               @@ (TwinCode :> [LobbyRooms["AB12"] EXCEPT !.code = TwinCode, !.oid = 2])
  /\ clients = LobbyClients
  /\ nextId = MIN_PLAYERS
  /\ nextOid = 2
  /\ timers = {}
  /\ outbox = <<>>
  /\ last = Event("INIT", 0, <<>>)

\* the state of the second run once the first has taken the step
Second(s1) == [s1 EXCEPT !.outbox = <<>>]

TwinCommit(s1, s2, op, conn) ==
  /\ rooms' = s2.rooms
  /\ timers' = s2.timers
  /\ outbox' = s1.outbox
  /\ last' = Event(op, conn, s2.outbox)
  /\ UNCHANGED <<nextId, nextOid>>

TwinStart ==
  \E ws \in DOMAIN clients, guilty1 \in 1..MIN_PLAYERS, guilty2 \in 1..MIN_PLAYERS :
    /\ "AB12" \in DOMAIN rooms
    /\ rooms["AB12"].roundNumber = 0
    /\ guilty1 <= Len(rooms["AB12"].players)
    /\ guilty2 <= Len(rooms["AB12"].players)
    /\ LET s1 == startGame(S0, clients, "AB12", 1, guilty1)
           s2 == startGame(Second(s1), clients, TwinCode, 1, guilty2)
       IN TwinCommit(s1, s2, "START_GAME", ws)
    /\ UNCHANGED clients

TwinFire ==
  \E t1 \in timers, t2 \in timers :
    /\ t1.code = "AB12"
    /\ \A u \in timers : u.batch = t1.batch => t1.delay <= u.delay
    /\ t2.code = TwinCode
    /\ t2.kind = t1.kind /\ t2.delay = t1.delay
    /\ t2.armedIn = t1.armedIn /\ t2.evidence = t1.evidence
    /\ LET s1 == fireTimer(S0, clients, t1)
           s2 == fireTimer(Second(s1), clients, t2)
       IN TwinCommit(s1, s2, IF t1.kind = "phase" THEN "PHASE_TIMER"
                             ELSE "EVIDENCE_TIMER", 0)
    /\ UNCHANGED clients

TwinLeave ==
  \E ws \in DOMAIN clients :
    LET cl1 == [c \in DOMAIN clients \ {ws} |-> clients[c]]
        s1 == handleDisconnect(S0, cl1, "AB12", ws)
        s2 == handleDisconnect(Second(s1), cl1, TwinCode, ws)
    IN /\ clients' = cl1
       /\ TwinCommit(s1, s2, "DISCONNECT", ws)

TwinAlibi ==
  \E ws \in DOMAIN clients :
    /\ ws <= MaxWriters
    /\ LET s1 == submitAlibi(S0, clients, "AB12", ws, "at home")
           s2 == submitAlibi(Second(s1), clients, TwinCode, ws, "at home")
       IN TwinCommit(s1, s2, "SUBMIT_ALIBI", ws)
    /\ UNCHANGED clients

NextTwin == TwinStart \/ TwinFire \/ TwinLeave \/ TwinAlibi

\* the messages of the sequence delivered to the player
ToPlayer(messages, p) == SelectSeq(messages, LAMBDA m : m.to = p)

\* C39: up to the start of RESULTS, a player who is guilty in neither run is
\* delivered the same messages in both runs, whichever players were drawn.
NoGuiltyLeak ==
  \A p \in DOMAIN clients :
    ( /\ "AB12" \in DOMAIN rooms
      /\ rooms["AB12"].phase
           \in {"SETUP", "ALIBI_CONSTRUCTION", "INTERROGATION", "ACCUSATIONS"}
      /\ p # rooms["AB12"].guiltyPlayerId
      /\ p # rooms[TwinCode].guiltyPlayerId )
      => ToPlayer(outbox, p) = ToPlayer(last.arg, p)

\* the runs drew different players and have reached ACCUSATIONS with an
\* alibi recorded; a player innocent in both got the same snapshot twice,
\* while the player guilty in the first run got two different ones
GuiltyNotLeakedWitness ==
  /\ "AB12" \in DOMAIN rooms
  /\ rooms["AB12"].phase = "ACCUSATIONS"
  /\ last.op = "PHASE_TIMER"
  /\ rooms["AB12"].guiltyPlayerId # rooms[TwinCode].guiltyPlayerId
  /\ rooms["AB12"].alibis # <<>>
  /\ rooms["AB12"].guiltyPlayerId \in DOMAIN clients
  /\ ToPlayer(outbox, rooms["AB12"].guiltyPlayerId)
       # ToPlayer(last.arg, rooms["AB12"].guiltyPlayerId)
  /\ \E p \in DOMAIN clients :
       /\ p # rooms["AB12"].guiltyPlayerId
       /\ p # rooms[TwinCode].guiltyPlayerId
       /\ Len(ToPlayer(outbox, p)) = 1
       /\ ToPlayer(outbox, p)[1].type = "PHASE_CHANGE"
       /\ ToPlayer(outbox, p)[1].payload.phase = "ACCUSATIONS"
       /\ ToPlayer(outbox, p) = ToPlayer(last.arg, p)

SpecTwin == InitTwin /\ [][NextTwin]_vars

====
